---------------------------- MODULE Spec2Model ----------------------------
(***************************************************************************)
(* Bowlly MCP server: the per-identity token-bucket rate limiter           *)
(* (rate-limit.ts), the tool handlers that it gates, and the               *)
(* search_products result pipeline (tools/search-products.ts).             *)
(*                                                                         *)
(* Token counts are real numbers in the program.  Every value the program  *)
(* can produce is a multiple of 1/windowMs (capacity and clock readings    *)
(* are integers), so the model holds tokens in units of 1/WindowMs of a    *)
(* token: the field "tokens" of a bucket is  tokens * WindowMs,  an        *)
(* integer, and the proportional refill is exact.                          *)
(***************************************************************************)
EXTENDS Integers, Sequences, FiniteSets, TLC

\* ---------------------------------------------------------------- bounds
\* Largest bucket capacity (config.rateLimitPerMin) explored.
MaxCapacity == 3
\* The refill window, in clock units (the program's windowMs).
WindowMs == 4
MaxHandlers == 2
\* The clock is explored from 0 up to this reading.
MaxTime == 6

VARIABLES
  now,        \* Date.now()
  limit,      \* the capacity the bucket / the manager was constructed with
  bucket,     \* a TokenBucket: [tokens, lastRefill]
  hist,       \* what the calls on `bucket` did (observation only)
  buckets,    \* TokenBucketManager.buckets: clientId -> TokenBucket
  mgr,        \* what the calls on the manager did (observation only)
  call,       \* the tool invocation in progress (suspended at an await)
  reply,      \* how the last tool invocation ended (observation only)
  app,        \* a pure helper applied to drawn arguments: [fn, args, result]
  conc        \* invocations of one identity in flight together: [flight, obs]

bucketVars == <<bucket, hist>>
mgrVars == <<buckets, mgr>>
toolVars == <<call, reply, conc>>
vars == <<now, limit, bucket, hist, buckets, mgr, call, reply, app, conc>>

\* ------------------------------------------------------------ TokenBucket
Min(a, b) == IF a <= b THEN a ELSE b

\* Math.floor of a token count held in units of 1/WindowMs.
Floor(tokens) == tokens \div WindowMs

\* new TokenBucket(limit, windowMs) at clock reading t.
NewBucket(cap, t) == [tokens |-> cap * WindowMs, lastRefill |-> t]

\* Mutant of Refill: the refill is not clamped to the capacity.
RefillUnclamped(b, t, cap) ==
  LET elapsed == t - b.lastRefill
  IN  IF elapsed > 0
        THEN [tokens |-> b.tokens + elapsed * cap, lastRefill |-> t]
        ELSE b

\* Mutant of Refill: the refill is computed against half the window.
RefillDoubleRate(b, t, cap) ==
  LET elapsed == t - b.lastRefill
  IN  IF elapsed > 0
        THEN [tokens     |-> Min(cap * WindowMs, b.tokens + 2 * elapsed * cap),
              lastRefill |-> t]
        ELSE b

\* Mutant of Refill: the refill is computed against twice the window.
RefillHalfRate(b, t, cap) ==
  LET elapsed == t - b.lastRefill
  IN  IF elapsed > 0
        THEN [tokens     |-> Min(cap * WindowMs, b.tokens + (elapsed * cap) \div 2),
              lastRefill |-> t]
        ELSE b

\* consume(), the refill step: elapsed > 0 adds (elapsed / windowMs) * limit
\* tokens, clamped to limit, and moves lastRefill to now.
Refill(b, t, cap) ==
  LET elapsed == t - b.lastRefill
  IN  IF elapsed > 0
        THEN [tokens     |-> Min(cap * WindowMs, b.tokens + elapsed * cap),
              lastRefill |-> t]
        ELSE b

\* Mutant of Consume: the denial test is tokens < 0, so an empty bucket
\* admits one more call.
ConsumeAdmitsAtZero(b, t, cap) ==
  LET r == Refill(b, t, cap)
      resetEpochMs == r.lastRefill + WindowMs
  IN  IF r.tokens < 0
        THEN [bucket |-> r,
              result |-> [allowed |-> FALSE, limit |-> cap, remaining |-> 0,
                          resetEpochMs |-> resetEpochMs]]
        ELSE [bucket |-> [r EXCEPT !.tokens = r.tokens - WindowMs],
              result |-> [allowed |-> TRUE, limit |-> cap,
                          remaining |-> (r.tokens - WindowMs) \div WindowMs,
                          resetEpochMs |-> resetEpochMs]]

\* Mutant of Consume: resetEpochMs is computed from lastRefill as it was
\* before the refill step.
ConsumeResetBeforeRefill(b, t, cap) ==
  LET r == Refill(b, t, cap)
      resetEpochMs == b.lastRefill + WindowMs
  IN  IF r.tokens <= 0
        THEN [bucket |-> r,
              result |-> [allowed |-> FALSE, limit |-> cap, remaining |-> 0,
                          resetEpochMs |-> resetEpochMs]]
        ELSE [bucket |-> [r EXCEPT !.tokens = r.tokens - WindowMs],
              result |-> [allowed |-> TRUE, limit |-> cap,
                          remaining |-> Floor(r.tokens - WindowMs),
                          resetEpochMs |-> resetEpochMs]]

\* Mutant of Consume: a denied call moves lastRefill and drops the tokens
\* the refill added.
ConsumeDenialDropsRefill(b, t, cap) ==
  LET r == Refill(b, t, cap)
      resetEpochMs == r.lastRefill + WindowMs
  IN  IF r.tokens <= 0
        THEN [bucket |-> [r EXCEPT !.tokens = b.tokens],
              result |-> [allowed |-> FALSE, limit |-> cap, remaining |-> 0,
                          resetEpochMs |-> resetEpochMs]]
        ELSE [bucket |-> [r EXCEPT !.tokens = r.tokens - WindowMs],
              result |-> [allowed |-> TRUE, limit |-> cap,
                          remaining |-> Floor(r.tokens - WindowMs),
                          resetEpochMs |-> resetEpochMs]]

\* consume(), after the refill: deny when tokens <= 0, else take one token.
\* Gives the bucket after the call and the RateLimitCheck returned.
Consume(b, t, cap) ==
  LET r == Refill(b, t, cap)
      resetEpochMs == r.lastRefill + WindowMs
  IN  IF r.tokens <= 0
        THEN [bucket |-> r,
              result |-> [allowed |-> FALSE, limit |-> cap, remaining |-> 0,
                          resetEpochMs |-> resetEpochMs]]
        ELSE [bucket |-> [r EXCEPT !.tokens = r.tokens - WindowMs],
              result |-> [allowed |-> TRUE, limit |-> cap,
                          remaining |-> Floor(r.tokens - WindowMs),
                          resetEpochMs |-> resetEpochMs]]

\* No consume() has returned yet.
NoResult == [allowed |-> FALSE, limit |-> 0, remaining |-> 0, resetEpochMs |-> 0]

\* ----------------------------------------------------- TokenBucketManager
\* The identities that call the manager.
Clients == {"client-a", "client-b"}

\* Map.get() of a key the map does not hold.
NoBucket == [tokens |-> -1, lastRefill |-> -1]

\* new Map(): no identity has a bucket.
NoBuckets == [c \in Clients |-> NoBucket]

\* Mutant of ManagerConsume: every identity is served from one map entry.
ManagerConsumeSharedKey(bs, clientId, t, cap) ==
  LET key == "client-a"
      has == bs[key] # NoBucket
      b   == IF has THEN bs[key] ELSE NewBucket(cap, t)
      c   == Consume(b, t, cap)
  IN  [buckets |-> [bs EXCEPT ![key] = c.bucket],
       result  |-> c.result,
       made    |-> ~has]

\* Mutant of ManagerConsume: the has() test is missing, so every call
\* constructs a new bucket.
ManagerConsumeAlwaysNew(bs, clientId, t, cap) ==
  LET c == Consume(NewBucket(cap, t), t, cap)
  IN  [buckets |-> [bs EXCEPT ![clientId] = c.bucket],
       result  |-> c.result,
       made    |-> TRUE]

\* manager.consume(clientId): construct the identity's bucket when the map
\* has none, then consume() on the map's bucket.  `made` tells whether a
\* TokenBucket was constructed by this call.
ManagerConsume(bs, clientId, t, cap) ==
  LET has == bs[clientId] # NoBucket
      b   == IF has THEN bs[clientId] ELSE NewBucket(cap, t)
      c   == Consume(b, t, cap)
  IN  [buckets |-> [bs EXCEPT ![clientId] = c.bucket],
       result  |-> c.result,
       made    |-> ~has]

\* The manager's variables while no manager is in use.
MgrIdle ==
  /\ buckets = NoBuckets
  /\ mgr = [caller |-> "none", result |-> NoResult, refResult |-> NoResult,
            made |-> [c \in Clients |-> 0], ref |-> NoBuckets]

\* The single bucket's variables while it is not in use.
BucketIdle ==
  /\ bucket = NoBucket
  /\ hist = [createdAt |-> 0, calls |-> 0, firstAt |-> -1, prevAt |-> 0,
             lastAt |-> 0, pre |-> 0, mid |-> 0, result |-> NoResult]

\* ------------------------------------------------------------------ text
\* A string is a sequence of one-character strings.  An optional string or
\* array that is absent is the empty sequence: the handler reads both the
\* same way (Boolean(""), `|| []`, `?.length ?? 0`).
UpperCase == {"A", "B", "C", "D", "E", "F", "G", "H", "I", "J", "K", "L", "M",
              "N", "O", "P", "Q", "R", "S", "T", "U", "V", "W", "X", "Y", "Z"}
LowerCase == {"a", "b", "c", "d", "e", "f", "g", "h", "i", "j", "k", "l", "m",
              "n", "o", "p", "q", "r", "s", "t", "u", "v", "w", "x", "y", "z"}
Digits == {"0", "1", "2", "3", "4", "5", "6", "7", "8", "9"}

\* \w of a regular expression.
IsWordChar(ch) == ch \in UpperCase \cup LowerCase \cup Digits \cup {"_"}

\* \s of a regular expression (the white space String.trim() removes).
IsSpace(ch) == ch \in {" ", "\t", "\n"}

LowerOf ==
  [ch \in UpperCase |->
     CASE ch = "A" -> "a" [] ch = "B" -> "b" [] ch = "C" -> "c" [] ch = "D" -> "d"
       [] ch = "E" -> "e" [] ch = "F" -> "f" [] ch = "G" -> "g" [] ch = "H" -> "h"
       [] ch = "I" -> "i" [] ch = "J" -> "j" [] ch = "K" -> "k" [] ch = "L" -> "l"
       [] ch = "M" -> "m" [] ch = "N" -> "n" [] ch = "O" -> "o" [] ch = "P" -> "p"
       [] ch = "Q" -> "q" [] ch = "R" -> "r" [] ch = "S" -> "s" [] ch = "T" -> "t"
       [] ch = "U" -> "u" [] ch = "V" -> "v" [] ch = "W" -> "w" [] ch = "X" -> "x"
       [] ch = "Y" -> "y" [] ch = "Z" -> "z"]

\* String.prototype.toLowerCase
ToLowerCase(str) ==
  [i \in 1..Len(str) |-> IF str[i] \in UpperCase THEN LowerOf[str[i]] ELSE str[i]]

\* str.slice(from, to) with 0-based from, exclusive to (both clamped).
Slice(str, from, to) ==
  LET hi == Min(to, Len(str))
  IN  IF from >= hi THEN <<>> ELSE SubSeq(str, from + 1, hi)

\* The occurrences of `needle` in `str`: the 0-based places it starts at.
Occurrences(str, needle) ==
  {i \in 0..(Len(str) - Len(needle)) : Slice(str, i, i + Len(needle)) = needle}

\* String.prototype.includes
Includes(str, needle) == Occurrences(str, needle) # {}

\* String.prototype.trim
RECURSIVE TrimStart(_)
TrimStart(str) ==
  IF str # <<>> /\ IsSpace(Head(str)) THEN TrimStart(Tail(str)) ELSE str

RECURSIVE TrimEnd(_)
TrimEnd(str) ==
  IF str # <<>> /\ IsSpace(str[Len(str)])
    THEN TrimEnd(SubSeq(str, 1, Len(str) - 1))
    ELSE str

Trim(str) == TrimEnd(TrimStart(str))

\* str.split(","): the pieces between the commas, empty pieces kept.
RECURSIVE SplitComma(_)
SplitComma(str) ==
  LET commas == {i \in 1..Len(str) : str[i] = ","}
  IN  IF commas = {}
        THEN <<str>>
        ELSE LET first == CHOOSE i \in commas : \A j \in commas : i <= j
             IN  <<SubSeq(str, 1, first - 1)>>
                   \o SplitComma(SubSeq(str, first + 1, Len(str)))

\* parts.join(" ")
RECURSIVE JoinSpace(_)
JoinSpace(parts) ==
  IF parts = <<>> THEN <<>>
  ELSE IF Len(parts) = 1 THEN parts[1]
  ELSE parts[1] \o <<" ">> \o JoinSpace(Tail(parts))

\* A position of `str` (0..Len) is a word boundary \b when exactly one of
\* the characters before and after it is a word character.
IsBoundary(str, pos) ==
  LET before == pos >= 1 /\ IsWordChar(str[pos])
      after  == pos < Len(str) /\ IsWordChar(str[pos + 1])
  IN  before # after

\* new RegExp("\\b" + escapeRegex(value) + "\\b", "i").test(field): the
\* escaped value is matched literally, letters without regard to case.
WordBoundaryTest(value, field) ==
  \E i \in Occurrences(ToLowerCase(field), ToLowerCase(value)) :
     IsBoundary(field, i) /\ IsBoundary(field, i + Len(value))

\* --------------------------------------------------- search_products: terms
\* A catalog item (AgentProductItem) is a record
\*   [id, name, brand, conditionTags, ingredientsPreview, ingredientsFull,
\*    detailUrl, protein, fat, moisture, carbEstimated]
\* with strings and arrays as sequences and a missing number as Missing.

\* A nutrition number the item does not carry (undefined).
Missing == -1

\* /^"(.+)"$/: a double quote at both ends and at least one character, none
\* of them a line break, between them.
IsQuoted(term) ==
  /\ Len(term) >= 3
  /\ term[1] = "\""
  /\ term[Len(term)] = "\""
  /\ \A i \in 2..(Len(term) - 1) : term[i] # "\n"

\* parseMatchType(term)
ParseMatchType(term) ==
  IF IsQuoted(term)
    THEN [type |-> "exact", value |-> ToLowerCase(SubSeq(term, 2, Len(term) - 1))]
    ELSE [type |-> "partial", value |-> ToLowerCase(term)]

\* isSafeIngredient(ingredient): /^[\w\s\-'.()]+$/i
IsSafeIngredient(ingredient) ==
  /\ ingredient # <<>>
  /\ \A i \in 1..Len(ingredient) :
       \/ IsWordChar(ingredient[i])
       \/ IsSpace(ingredient[i])
       \/ ingredient[i] \in {"-", "'", ".", "(", ")"}

\* SearchFields with the full ingredient list searched as well.
SearchFieldsWithFull(product) ==
  LET fields == <<product.name, product.brand>>
                  \o product.conditionTags \o product.ingredientsPreview
                  \o product.ingredientsFull
  IN  [i \in 1..Len(fields) |-> ToLowerCase(fields[i])]

\* The fields a term is matched against, lower-cased: name, brand, condition
\* tags and ingredients preview.
SearchFields(product) ==
  LET fields == <<product.name, product.brand>>
                  \o product.conditionTags \o product.ingredientsPreview
  IN  [i \in 1..Len(fields) |-> ToLowerCase(fields[i])]

\* matchIngredient without the fallback for unsafe literals: every exact
\* term is tested between word boundaries.
MatchIngredientNoFallback(ingredient, product, matchType) ==
  LET fields == SearchFields(product)
  IN  IF matchType = "exact"
        THEN \E i \in 1..Len(fields) : WordBoundaryTest(ingredient, fields[i])
        ELSE \E i \in 1..Len(fields) : Includes(fields[i], ingredient)

\* matchIngredient with no word-boundary test: every term is a substring test.
MatchIngredientAlwaysPartial(ingredient, product, matchType) ==
  \E i \in 1..Len(SearchFields(product)) :
     Includes(SearchFields(product)[i], ToLowerCase(ingredient))

\* matchIngredient(ingredient, product, matchType, precompiledRegex); the
\* precompiled expression is the one the function would build itself.
MatchIngredient(ingredient, product, matchType) ==
  LET fields == SearchFields(product)
  IN  IF matchType = "exact"
        THEN IF ~IsSafeIngredient(ingredient)
               THEN \E i \in 1..Len(fields) :
                      Includes(fields[i], ToLowerCase(ingredient))
               ELSE \E i \in 1..Len(fields) :
                      WordBoundaryTest(ingredient, fields[i])
        ELSE \E i \in 1..Len(fields) : Includes(fields[i], ingredient)

\* _searchText: the searched fields joined by spaces, lower-cased.
SearchText(item) ==
  ToLowerCase(JoinSpace(<<item.name, item.brand>>
                          \o item.conditionTags \o item.ingredientsPreview))

\* SplitTerms with the elements that are empty once trimmed left out.
SplitTermsDropsEmpty(param) ==
  IF param = <<>> THEN <<>>
  ELSE LET parts == SplitComma(param)
           NotEmpty(t) == t # <<>>
       IN  SelectSeq([i \in 1..Len(parts) |-> Trim(parts[i])], NotEmpty)

\* params.includeIngredients.split(",").map((s) => s.trim()); [] when the
\* parameter is absent or empty.
SplitTerms(param) ==
  IF param = <<>> THEN <<>>
  ELSE LET parts == SplitComma(param)
       IN  [i \in 1..Len(parts) |-> Trim(parts[i])]

\* Step 4, the filter: an item is kept when it matches every include term
\* and no exclude term.
KeepsItem(item, includeTerms, excludeTerms) ==
  LET inc == [i \in 1..Len(includeTerms) |-> ParseMatchType(includeTerms[i])]
      exc == [i \in 1..Len(excludeTerms) |-> ParseMatchType(excludeTerms[i])]
      matchesInclude ==
        \/ Len(inc) = 0
        \/ \A i \in 1..Len(inc) : MatchIngredient(inc[i].value, item, inc[i].type)
      matchesExclude ==
        \/ Len(exc) = 0
        \/ ~\E i \in 1..Len(exc) : MatchIngredient(exc[i].value, item, exc[i].type)
  IN  matchesInclude /\ matchesExclude

\* term.toLowerCase().replace(/^"(.+)"$/, "$1")
RelaxTerm(term) ==
  LET lower == ToLowerCase(term)
  IN  IF IsQuoted(lower) THEN SubSeq(lower, 2, Len(lower) - 1) ELSE lower

\* Step 4b, the relaxed pass: some include term (or none given) and no
\* exclude term occurs in the item's search text.
RelaxedKeepsItem(item, includeTerms, excludeTerms) ==
  LET text == SearchText(item)
      matchesInclude ==
        \/ Len(includeTerms) = 0
        \/ \E i \in 1..Len(includeTerms) : Includes(text, RelaxTerm(includeTerms[i]))
      matchesExclude ==
        \/ Len(excludeTerms) = 0
        \/ ~\E i \in 1..Len(excludeTerms) : Includes(text, RelaxTerm(excludeTerms[i]))
  IN  matchesInclude /\ matchesExclude

\* HasIngredientData with every() in the place of some().
HasIngredientDataEvery(items) ==
  \A i \in 1..Len(items) :
     Len(items[i].ingredientsPreview) > 0 \/ Len(items[i].ingredientsFull) > 0

\* items.some(ingredientsPreview or ingredientsFull is not empty)
HasIngredientData(items) ==
  \E i \in 1..Len(items) :
     Len(items[i].ingredientsPreview) > 0 \/ Len(items[i].ingredientsFull) > 0

\* ------------------------------------------------- search_products: sorting
\* The comparator of sortProducts: negative when a sorts before b.
Or0(v) == IF v = Missing THEN 0 ELSE v
Or999(v) == IF v = Missing THEN 999 ELSE v

Compare(a, b, sortBy) ==
  CASE sortBy = "protein_desc"  -> Or0(b.protein) - Or0(a.protein)
    [] sortBy = "carbs_asc"     -> Or999(a.carbEstimated) - Or999(b.carbEstimated)
    [] sortBy = "fat_desc"      -> Or0(b.fat) - Or0(a.fat)
    [] sortBy = "moisture_desc" -> Or0(b.moisture) - Or0(a.moisture)
    [] OTHER                    -> 0

\* InsertSorted for a sort that is not stable: x goes before the elements
\* it compares equal to.
RECURSIVE InsertSortedUnstable(_, _, _)
InsertSortedUnstable(x, sorted, sortBy) ==
  IF sorted = <<>> THEN <<x>>
  ELSE IF Compare(Head(sorted), x, sortBy) < 0
         THEN <<Head(sorted)>> \o InsertSortedUnstable(x, Tail(sorted), sortBy)
         ELSE <<x>> \o sorted

\* Array.prototype.sort is stable: x goes after every element that does not
\* compare greater than it.
RECURSIVE InsertSorted(_, _, _)
InsertSorted(x, sorted, sortBy) ==
  IF sorted = <<>> THEN <<x>>
  ELSE IF Compare(Head(sorted), x, sortBy) <= 0
         THEN <<Head(sorted)>> \o InsertSorted(x, Tail(sorted), sortBy)
         ELSE <<x>> \o sorted

RECURSIVE SortInto(_, _, _)
SortInto(items, sorted, sortBy) ==
  IF items = <<>> THEN sorted
  ELSE SortInto(Tail(items), InsertSorted(Head(items), sorted, sortBy), sortBy)

\* sortProducts(items, sortBy): a sorted copy.
SortProducts(items, sortBy) == SortInto(items, <<>>, sortBy)

\* ---------------------------------------------------------------- safeguard
\* AFFILIATE_PATTERNS; each is a literal text, matched without regard to case.
AffiliatePatterns ==
  { <<"t", "a", "g", "=">>,
    <<"a", "m", "a", "z", "o", "n", ".">>,
    <<"a", "m", "z", "n", ".">>,
    <<"a", ".", "c", "o">>,
    <<"/", "d", "p", "/">>,
    <<"/", "g", "p", "/", "p", "r", "o", "d", "u", "c", "t", "/">>,
    <<"a", "f", "f", "i", "l", "i", "a", "t", "e">>,
    <<"r", "e", "f", "=">>,
    <<"r", "e", "f", "e", "r", "r", "a", "l">>,
    <<"s", "u", "b", "i", "d", "=">>,
    <<"c", "l", "i", "c", "k", "i", "d", "=">> }

\* containsAffiliatePattern(value).  No string of the model holds a "%", so
\* decodeURIComponent(value) is value and the second scan repeats the first.
ContainsAffiliatePattern(value) ==
  LET lower == ToLowerCase(value)
  IN  \E pat \in AffiliatePatterns : Includes(lower, pat)

\* assertNoAffiliateLinks(result) throws, for a search result: some string
\* of some returned item holds a pattern.  (The fixed filterNote and
\* suggestion texts, the ids and the numbers hold none.)
SearchResultLeaks(searchItems) ==
  \E i \in 1..Len(searchItems) :
     \/ ContainsAffiliatePattern(searchItems[i].name)
     \/ ContainsAffiliatePattern(searchItems[i].brand)
     \/ ContainsAffiliatePattern(searchItems[i].detailUrl)
     \/ \E j \in 1..Len(searchItems[i].ingredientsPreview) :
          ContainsAffiliatePattern(searchItems[i].ingredientsPreview[j])

\* ---------------------------------------------------------- tool responses
NoData == [items |-> <<>>, total |-> 0, hasMore |-> FALSE, cursor |-> 0,
           filterNote |-> FALSE, suggestions |-> <<>>]

\* createSuccessResponse(data, rateLimit)
SuccessResponse(data, rateLimit) ==
  [isError |-> FALSE, type |-> "OK", message |-> "", hasRateLimit |-> TRUE,
   rateLimit |-> rateLimit, data |-> data]

\* A response whose body is {error: {type, message}, rateLimit}.
ErrorResponse(type, message, rateLimit) ==
  [isError |-> TRUE, type |-> type, message |-> message, hasRateLimit |-> TRUE,
   rateLimit |-> rateLimit, data |-> NoData]

\* The RateLimitInfo a handler copies from an admitted RateLimitCheck.
RateLimitOf(rateCheck) ==
  [limit |-> rateCheck.limit, remaining |-> rateCheck.remaining,
   resetEpochMs |-> rateCheck.resetEpochMs]

\* ToolResponseBuilder.rateLimitExceeded(rateCheck)
RateLimitExceeded(rateCheck) ==
  ErrorResponse("RATE_LIMITED", "Rate limit exceeded",
                [limit |-> rateCheck.limit, remaining |-> 0,
                 resetEpochMs |-> rateCheck.resetEpochMs])

\* ToolResponseBuilder.notFound(resource, resourceId, rateLimit)
NotFoundResponse(rateLimit) == ErrorResponse("NOT_FOUND", "not found", rateLimit)

\* ToolResponseBuilder.validation(message, rateLimit, details)
ValidationResponse(message, rateLimit) == ErrorResponse("VALIDATION", message, rateLimit)

\* ToolResponseBuilder.internal(message, rateLimit, logContext): the message
\* given is logged, the response carries a fixed one.
InternalResponse(message, rateLimit) ==
  ErrorResponse("INTERNAL", "Service temporarily unavailable", rateLimit)

\* An error a handler catches: its class and its message.  NoError stands
\* for no error.
NoError == [name |-> "none", message |-> ""]

\* ----------------------------------------------- search_products: pipeline
\* A request is [limit, cursor, sortBy, includeIngredients,
\* excludeIngredients] after the input schema applied its defaults; sortBy
\* "none" and an empty string stand for an absent parameter, and so does
\* limit 0 (the schema admits no limit below 1).  The other
\* parameters (query, form, conditions, minProtein, maxCarbs) are copied to
\* the catalog request and read nowhere else.
DEFAULT_BATCH_SIZE == 50
CLIENT_SIDE_PROCESSING_BATCH_SIZE == 200
DEFAULT_LIMIT == 10

NeedsClientSideProcessing(params) ==
  \/ params.sortBy # "none"
  \/ params.includeIngredients # <<>>
  \/ params.excludeIngredients # <<>>

\* P1-022: the batch size.
BatchSize(params) ==
  Min(IF params.limit # 0 THEN params.limit * 2 ELSE DEFAULT_BATCH_SIZE,
      CLIENT_SIDE_PROCESSING_BATCH_SIZE)

\* userLimit = params.limit ?? 10
UserLimit(params) == IF params.limit # 0 THEN params.limit ELSE DEFAULT_LIMIT

\* ApiParams asking for the batch at the caller's cursor.
ApiParamsAtCursor(params) ==
  IF NeedsClientSideProcessing(params)
    THEN [limit |-> BatchSize(params), offset |-> params.cursor]
    ELSE [limit |-> UserLimit(params), offset |-> params.cursor]

\* Step 2: the limit and offset asked of the catalog.
ApiParams(params) ==
  IF NeedsClientSideProcessing(params)
    THEN [limit |-> BatchSize(params), offset |-> 0]
    ELSE [limit |-> UserLimit(params), offset |-> params.cursor]

\* Step 4: the items left by the include/exclude filter.
FilterItems(items, params) ==
  LET includeTerms == SplitTerms(params.includeIngredients)
      excludeTerms == SplitTerms(params.excludeIngredients)
      Keep(item) == KeepsItem(item, includeTerms, excludeTerms)
  IN  SelectSeq(items, Keep)

\* Step 4b: the suggestions for an empty filter result.
Suggestions(originalItems, params) ==
  LET includeTerms == SplitTerms(params.includeIngredients)
      excludeTerms == SplitTerms(params.excludeIngredients)
      Keep(item) == RelaxedKeepsItem(item, includeTerms, excludeTerms)
      relaxedItems == SelectSeq(originalItems, Keep)
  IN  IF Len(relaxedItems) > 0
        THEN <<"No exact matches found. Try broadening your search or check ingredient spelling.",
               Len(relaxedItems)>>
        ELSE <<>>

\* Steps 4 and 5: the items after filtering and sorting.
ProcessedItems(items, params) ==
  LET filtered == IF params.includeIngredients # <<>> \/ params.excludeIngredients # <<>>
                    THEN FilterItems(items, params)
                    ELSE items
  IN  IF params.sortBy # "none" THEN SortProducts(filtered, params.sortBy) ELSE filtered

\* Paginate with a page that ends exactly at the last item still announcing
\* more items.
PaginateInclusive(items, meta, params) ==
  LET needs   == NeedsClientSideProcessing(params)
      total   == Len(items)
      sliced  == IF needs
                   THEN Slice(items, params.cursor, params.cursor + UserLimit(params))
                   ELSE items
      hasMore == IF needs
                   THEN params.cursor + UserLimit(params) <= total
                   ELSE IF meta.hasMore # "absent"
                          THEN meta.hasMore = "true"
                          ELSE meta.total > params.cursor + UserLimit(params)
  IN  [items   |-> sliced,
       total   |-> IF needs THEN total ELSE meta.total,
       hasMore |-> hasMore,
       cursor  |-> IF hasMore THEN params.cursor + Len(sliced) ELSE params.cursor]

\* Paginate without the slice: the whole list is the page in both modes.
PaginateUnsliced(items, meta, params) ==
  LET needs   == NeedsClientSideProcessing(params)
      total   == Len(items)
      hasMore == IF needs
                   THEN params.cursor + UserLimit(params) < total
                   ELSE IF meta.hasMore # "absent"
                          THEN meta.hasMore = "true"
                          ELSE meta.total > params.cursor + UserLimit(params)
  IN  [items   |-> items,
       total   |-> IF needs THEN total ELSE meta.total,
       hasMore |-> hasMore,
       cursor  |-> IF hasMore THEN params.cursor + Len(items) ELSE params.cursor]

\* Paginate with a next cursor that is the request's cursor.
PaginateCursorUnmoved(items, meta, params) ==
  LET needs   == NeedsClientSideProcessing(params)
      total   == Len(items)
      sliced  == IF needs
                   THEN Slice(items, params.cursor, params.cursor + UserLimit(params))
                   ELSE items
      hasMore == IF needs
                   THEN params.cursor + UserLimit(params) < total
                   ELSE IF meta.hasMore # "absent"
                          THEN meta.hasMore = "true"
                          ELSE meta.total > params.cursor + UserLimit(params)
  IN  [items   |-> sliced,
       total   |-> IF needs THEN total ELSE meta.total,
       hasMore |-> hasMore,
       cursor  |-> params.cursor]

\* Paginate reporting the catalog's total and deriving hasMore from it in
\* both modes.
PaginateReportsUpstream(items, meta, params) ==
  LET needs   == NeedsClientSideProcessing(params)
      sliced  == IF needs
                   THEN Slice(items, params.cursor, params.cursor + UserLimit(params))
                   ELSE items
      hasMore == IF ~needs /\ meta.hasMore # "absent"
                   THEN meta.hasMore = "true"
                   ELSE meta.total > params.cursor + UserLimit(params)
  IN  [items   |-> sliced,
       total   |-> meta.total,
       hasMore |-> hasMore,
       cursor  |-> IF hasMore THEN params.cursor + Len(sliced) ELSE params.cursor]

\* Paginate without regard to the catalog's own hasMore flag.
PaginateIgnoresUpstream(items, meta, params) ==
  LET needs   == NeedsClientSideProcessing(params)
      total   == Len(items)
      sliced  == IF needs
                   THEN Slice(items, params.cursor, params.cursor + UserLimit(params))
                   ELSE items
      hasMore == IF needs
                   THEN params.cursor + UserLimit(params) < total
                   ELSE meta.total > params.cursor + UserLimit(params)
  IN  [items   |-> sliced,
       total   |-> IF needs THEN total ELSE meta.total,
       hasMore |-> hasMore,
       cursor  |-> IF hasMore THEN params.cursor + Len(sliced) ELSE params.cursor]

\* Step 6: the page: total, the slice, hasMore and the next cursor.
Paginate(items, meta, params) ==
  LET needs   == NeedsClientSideProcessing(params)
      total   == Len(items)
      sliced  == IF needs
                   THEN Slice(items, params.cursor, params.cursor + UserLimit(params))
                   ELSE items
      hasMore == IF needs
                   THEN params.cursor + UserLimit(params) < total
                   ELSE IF meta.hasMore # "absent"
                          THEN meta.hasMore = "true"
                          ELSE meta.total > params.cursor + UserLimit(params)
  IN  [items   |-> sliced,
       total   |-> IF needs THEN total ELSE meta.total,
       hasMore |-> hasMore,
       cursor  |-> IF hasMore THEN params.cursor + Len(sliced) ELSE params.cursor]

\* Step 7: the fields of an item that are returned.
SearchResultItem(item) ==
  [id |-> item.id, name |-> item.name, brand |-> item.brand,
   ingredientsPreview |-> item.ingredientsPreview, detailUrl |-> item.detailUrl]

\* SearchSuggestions without the test for an empty filter result.
SearchSuggestionsAlways(validated, params) ==
  IF params.includeIngredients # <<>> \/ params.excludeIngredients # <<>>
    THEN Suggestions(validated.items, params)
    ELSE <<>>

\* Step 4b: the suggestions of the result, given only when filtering left
\* no item.
SearchSuggestions(validated, params) ==
  IF /\ params.includeIngredients # <<>> \/ params.excludeIngredients # <<>>
     /\ Len(FilterItems(validated.items, params)) = 0
    THEN Suggestions(validated.items, params)
    ELSE <<>>

\* Step 7: the result built from the page.
SearchResult(page, params, suggestions) ==
  [items       |-> [i \in 1..Len(page.items) |-> SearchResultItem(page.items[i])],
   total       |-> page.total,
   hasMore     |-> page.hasMore,
   cursor      |-> page.cursor,
   filterNote  |-> params.includeIngredients # <<>> \/ params.excludeIngredients # <<>>,
   suggestions |-> suggestions]

\* The catch block answering with the message of the error it caught.
SearchCatchEchoes(error, rateLimit) ==
  IF error.name = "NotFoundError"
    THEN NotFoundResponse(rateLimit)
    ELSE ErrorResponse("INTERNAL", error.message, rateLimit)

\* The catch block of the handler: the error's message is logged; a
\* NotFoundError is answered as not found, any other error as internal.
SearchCatch(error, rateLimit) ==
  IF error.name = "NotFoundError"
    THEN NotFoundResponse(rateLimit)
    ELSE InternalResponse("An error occurred while searching products. Please try again later.", rateLimit)

\* assertNoAffiliateLinks(data) throws this.
AffiliateLeakError ==
  [name |-> "Error", message |-> "Affiliate link leak detected in response"]

\* Steps 8 and 9 and the catch block: the safeguard throws inside the try,
\* and the catch block answers.
SearchGuarded(result, rateLimit) ==
  IF SearchResultLeaks(result.items)
    THEN SearchCatch(AffiliateLeakError, rateLimit)
    ELSE SuccessResponse(result, rateLimit)

\* SearchRespond without the test for ingredient data.
SearchRespondUnchecked(params, validated, rateLimit) ==
  SearchGuarded(
    SearchResult(Paginate(ProcessedItems(validated.items, params),
                          validated.meta, params),
                 params, SearchSuggestions(validated, params)),
    rateLimit)

\* Steps 4 to 9 and the catch block, for a catalog response that passed the
\* schema: the tool's response.
SearchRespond(params, validated, rateLimit) ==
  IF /\ params.includeIngredients # <<>> \/ params.excludeIngredients # <<>>
     /\ ~HasIngredientData(validated.items)
    THEN ValidationResponse("Ingredient include/exclude filtering is not available for this environment", rateLimit)
    ELSE SearchGuarded(
           SearchResult(Paginate(ProcessedItems(validated.items, params),
                                 validated.meta, params),
                        params, SearchSuggestions(validated, params)),
           rateLimit)

\* ------------------------------------------------------- the catalog explored
\* Items the catalog may return.
\* Dry food with a chicken meal and rice preview.
ItemMeal ==
  [id |-> "p1", name |-> <<"A", "c", "e">>, brand |-> <<"B", "o">>,
   conditionTags |-> <<<<"d", "i", "e", "t">>>>,
   ingredientsPreview |-> <<<<"c", "h", "i", "c", "k", "e", "n", " ", "m", "e", "a", "l">>, <<"r", "i", "c", "e">>>>,
   ingredientsFull |-> <<<<"c", "h", "i", "c", "k", "e", "n", " ", "m", "e", "a", "l">>, <<"r", "i", "c", "e">>>>,
   detailUrl |-> <<"/", "p", "/", "1">>,
   protein |-> 40, fat |-> 15, moisture |-> 10, carbEstimated |-> 20]

\* Wet food with a chicken preview, rice only in the full ingredient list;
\* no carbohydrate estimate.
ItemChicken ==
  [id |-> "p2", name |-> <<"C", "a", "t">>, brand |-> <<"B", "o">>,
   conditionTags |-> <<>>,
   ingredientsPreview |-> <<<<"C", "h", "i", "c", "k", "e", "n">>, <<"f", "i", "s", "h", " ", "b", "r", "o", "t", "h">>>>,
   ingredientsFull |-> <<<<"C", "h", "i", "c", "k", "e", "n">>, <<"f", "i", "s", "h", " ", "b", "r", "o", "t", "h">>, <<"r", "i", "c", "e">>>>,
   detailUrl |-> <<"/", "p", "/", "2">>,
   protein |-> 30, fat |-> 15, moisture |-> 78, carbEstimated |-> Missing]

\* An item listed without ingredient data or nutrition.
ItemBare ==
  [id |-> "p3", name |-> <<"D", "o", "t">>, brand |-> <<"E", "c", "o">>,
   conditionTags |-> <<>>,
   ingredientsPreview |-> <<>>,
   ingredientsFull |-> <<>>,
   detailUrl |-> <<"/", "p", "/", "3">>,
   protein |-> Missing, fat |-> Missing, moisture |-> Missing, carbEstimated |-> Missing]

\* An item whose detail link carries an affiliate tag.
ItemTagged ==
  [id |-> "p4", name |-> <<"E", "l", "k">>, brand |-> <<"E", "c", "o">>,
   conditionTags |-> <<>>,
   ingredientsPreview |-> <<<<"c", "o", "r", "n">>>>,
   ingredientsFull |-> <<<<"c", "o", "r", "n">>>>,
   detailUrl |-> <<"/", "p", "?", "t", "a", "g", "=", "x">>,
   protein |-> 40, fat |-> 9, moisture |-> 10, carbEstimated |-> 35]

Catalog == {ItemMeal, ItemChicken, ItemBare, ItemTagged}

\* The sequences without repetition of at most n items of a set.
RECURSIVE SeqsUpTo(_, _)
SeqsUpTo(items, n) ==
  IF n = 0 THEN {<<>>}
  ELSE LET shorter == SeqsUpTo(items, n - 1)
       IN  shorter \cup
             {Append(q, x) : q \in {r \in shorter : Len(r) = n - 1}, x \in items}

NoRepeat(q) == \A i, j \in 1..Len(q) : i # j => q[i] # q[j]

\* ------------------------------------------------------------ tool handlers
\* getClientId(): the process's session id, the same for every invocation.
ClientId == "client-a"

NoParams == [limit |-> 0, cursor |-> 0, sortBy |-> "none",
             includeIngredients |-> <<>>, excludeIngredients |-> <<>>]
NoRateLimit == [limit |-> 0, remaining |-> 0, resetEpochMs |-> 0]
NoCatalogResponse ==
  [items |-> <<>>, meta |-> [total |-> 0, limit |-> 0, offset |-> 0, hasMore |-> "absent"]]
NoResponse ==
  [isError |-> FALSE, type |-> "NONE", message |-> "", hasRateLimit |-> FALSE,
   rateLimit |-> NoRateLimit, data |-> NoData]

\* No invocation is in progress.
IdleCall == [tool |-> "none", pc |-> "idle", params |-> NoParams,
             rateLimit |-> NoRateLimit, fetches |-> 0, apiParams |-> [limit |-> 0, offset |-> 0]]

NoReply == [tool |-> "none", kind |-> "none", admitted |-> FALSE, fetches |-> 0,
            params |-> NoParams, catalog |-> NoCatalogResponse,
            response |-> NoResponse, error |-> NoError]

\* The handlers that can be suspended together.
Handlers == 1..MaxHandlers

\* No consume() was observed: `at` is the instant of the latest consume(),
\* `avail` the token count its first consume() found after the refill,
\* `observed` the token counts the calls admitted at that instant found
\* after the refill, `remaining` the remaining values they were given.
NoObs == [at |-> -1, avail |-> 0, observed |-> <<>>, remaining |-> <<>>]

\* No handler is suspended.
NoConc == [flight |-> [h \in Handlers |-> IdleCall], obs |-> NoObs]

ToolsIdle ==
  /\ call = IdleCall
  /\ reply = NoReply
  /\ conc = NoConc

\* No helper is being applied on its own.
NoApp == [fn |-> "none", args |-> <<>>, result |-> <<>>]

\* createErrorResponse(message, rateLimit, additionalData): the body is
\* {error: message, rateLimit, ...}, without an error type.
PlainErrorResponse(message, rateLimit) == ErrorResponse("UNTYPED", message, rateLimit)

\* The invocation ends by returning `response`.
Returns(tool, admitted, fetches, params, catalog, response) ==
  [tool |-> tool, kind |-> "response", admitted |-> admitted, fetches |-> fetches,
   params |-> params, catalog |-> catalog, response |-> response,
   error |-> NoError]

\* The invocation ends by an exception leaving the handler.
Throws(tool, fetches) ==
  [tool |-> tool, kind |-> "exception", admitted |-> TRUE, fetches |-> fetches,
   params |-> NoParams, catalog |-> NoCatalogResponse, response |-> NoResponse,
   error |-> NoError]

\* The handler awaits a client call: one more catalog fetch is in flight.
\* `fetches` counts the handler's calls of the client (getProducts,
\* getProductDetail, getCuration), not the HTTP requests the client makes
\* for one call (getProducts sends a HEAD and then a GET), nor the detail
\* lookups of enrichTopProducts.
Awaits(tool, pc, params, rateLimit, fetches) ==
  [tool |-> tool, pc |-> pc, params |-> params, rateLimit |-> rateLimit,
   fetches |-> fetches + 1, apiParams |-> ApiParams(params)]

\* Admission with the catalog fetch started before the rate limit check.
AdmissionFetchesFirst(tool, params, inputOk, rateCheck) ==
  LET rateLimit == RateLimitOf(rateCheck)
  IN  IF ~rateCheck.allowed
        THEN [call |-> IdleCall,
              reply |-> Returns(tool, FALSE, 1, params, NoCatalogResponse,
                                RateLimitExceeded(rateCheck))]
        ELSE [call |-> Awaits(tool, "fetching", params, rateLimit, 0),
              reply |-> NoReply]

\* What a tool does from its first line to its first await or return.
\* `rateCheck` is the result of bucketManager.consume(getClientId());
\* `inputOk` tells whether the product ids pass the ULID test.
\* Gives the invocation in progress and, when it has ended, how.
Admission(tool, params, inputOk, rateCheck) ==
  LET rateLimit == RateLimitOf(rateCheck)
      denied    == IF tool \in {"get_product_detail", "compare_products"}
                     THEN PlainErrorResponse("Rate limit exceeded",
                            [limit |-> rateCheck.limit, remaining |-> 0,
                             resetEpochMs |-> rateCheck.resetEpochMs])
                     ELSE RateLimitExceeded(rateCheck)
  IN  IF ~rateCheck.allowed
        THEN [call |-> IdleCall,
              reply |-> Returns(tool, FALSE, 0, params, NoCatalogResponse, denied)]
      ELSE IF tool = "get_health"
        THEN [call |-> IdleCall,
              reply |-> Returns(tool, TRUE, 0, params, NoCatalogResponse,
                                SuccessResponse(NoData, rateLimit))]
      ELSE IF tool \in {"get_product_detail", "compare_products"} /\ ~inputOk
        THEN [call |-> IdleCall,
              reply |-> Returns(tool, TRUE, 0, params, NoCatalogResponse,
                                ValidationResponse("Invalid product ID format", rateLimit))]
      ELSE [call |-> Awaits(tool, "fetching", params, rateLimit, 0),
            reply |-> NoReply]

\* What a tool does when the awaited client call settles, to its next await
\* or its end.  `outcome.kind` is how the call settled:
\*   "ok"         it resolved with data that passes the schema;
\*   "leak"       as "ok", and the result built from it holds an affiliate
\*                pattern, so that assertNoAffiliateLinks throws;
\*   "null"       it resolved with {product: null};
\*   "invalid"    it resolved with data that fails the handler's schema;
\*   "not_found"  it rejected with NotFoundError;
\*   "error"      it rejected with any other error.
\* For search_products `outcome.value` is the catalog's response, "leak"
\* is decided by scanning the result, and `outcome.error` is the error the
\* call rejected with (the reply records it).
Settle(c, outcome) ==
  LET done(response) == [call |-> IdleCall,
                         reply |-> Returns(c.tool, TRUE, c.fetches, c.params,
                                           outcome.value, response)]
      caught(response) == [call |-> IdleCall,
                           reply |-> [Returns(c.tool, TRUE, c.fetches, c.params,
                                              outcome.value, response)
                                        EXCEPT !.error = outcome.error]]
      thrown         == [call |-> IdleCall, reply |-> Throws(c.tool, c.fetches)]
      internal       == done(InternalResponse("An error occurred", c.rateLimit))
      notFound       == done(NotFoundResponse(c.rateLimit))
      success        == done(SuccessResponse(NoData, c.rateLimit))
  IN  CASE c.tool = "search_products" ->
             IF outcome.kind = "ok"
               THEN done(SearchRespond(c.params, outcome.value, c.rateLimit))
               ELSE caught(SearchCatch(outcome.error, c.rateLimit))
        [] c.tool \in {"get_product_detail", "compare_products"} ->
             CASE outcome.kind = "ok"        -> success
               [] outcome.kind = "not_found" -> notFound
               [] OTHER                      -> internal
        [] c.tool = "analyze_nutrition" ->
             CASE outcome.kind = "ok"        -> success
               [] outcome.kind \in {"null", "not_found"} -> notFound
               [] OTHER                      -> internal
        [] c.tool = "get_curation_list" ->
             IF c.pc = "fetching"
               THEN CASE outcome.kind = "ok" ->
                           [call |-> [c EXCEPT !.pc = "enriching"], reply |-> NoReply]
                      [] outcome.kind = "not_found" -> notFound
                      [] OTHER                      -> thrown
               ELSE IF outcome.kind = "leak" THEN thrown ELSE success

Tools == {"search_products", "get_product_detail", "compare_products",
          "analyze_nutrition", "get_curation_list", "get_health"}

\* How the client call a handler awaits can settle.  getCuration resolves
\* only with data that passed the client's schema; enrichTopProducts (the
\* second await of get_curation_list) catches every error of its own and
\* always resolves.
OutcomeKinds(c) ==
  CASE c.tool = "search_products"    -> {"ok", "invalid", "not_found", "error"}
    [] c.tool = "get_product_detail" -> {"ok", "leak", "invalid", "not_found", "error"}
    [] c.tool = "compare_products"   -> {"ok", "leak", "invalid", "not_found", "error"}
    [] c.tool = "analyze_nutrition"  -> {"ok", "leak", "null", "not_found", "error"}
    [] c.tool = "get_curation_list"  ->
         IF c.pc = "fetching" THEN {"ok", "not_found", "error"} ELSE {"ok", "leak"}
    [] OTHER -> {}

\* The errors getProducts rejects with, by how the call settled: the
\* message of a ServerError is the body the catalog sent.
SearchErrors(kind) ==
  CASE kind = "not_found" -> {[name |-> "NotFoundError", message |-> "Resource not found"]}
    [] kind = "invalid"   -> {[name |-> "ZodError", message |-> "items: Required"],
                              [name |-> "Error", message |-> "Invalid API response: items: Required"]}
    [] kind = "error"     -> {[name |-> "ServerError", message |-> "upstream body A"],
                              [name |-> "ServerError", message |-> "upstream body B"],
                              [name |-> "TimeoutError", message |-> "Request timed out after 10000ms"],
                              [name |-> "NetworkError", message |-> "fetch failed"]}
    [] OTHER              -> {NoError}

\* ---------------------------------------------- a single bucket and a clock
\* The call counter saturates two past the largest capacity.
CallCap == MaxCapacity + 2

InitBucket ==
  /\ now = 0
  /\ limit \in 1..MaxCapacity
  /\ bucket = NewBucket(limit, 0)
  /\ hist = [createdAt |-> 0, calls |-> 0, firstAt |-> -1, prevAt |-> 0,
             lastAt |-> 0, pre |-> limit * WindowMs, mid |-> limit * WindowMs,
             result |-> NoResult, prevResult |-> NoResult, admittedAt |-> <<>>]
  /\ MgrIdle
  /\ ToolsIdle
  /\ app = NoApp

\* Time passes between calls.
Tick ==
  /\ now < MaxTime
  /\ now' = now + 1
  /\ UNCHANGED <<limit, bucketVars, mgrVars, toolVars, app>>

\* bucket.consume()
BucketConsume ==
  LET c == Consume(bucket, now, limit)
  IN  /\ bucket' = c.bucket
      /\ hist' = [createdAt |-> hist.createdAt,
                  calls     |-> Min(CallCap, hist.calls + 1),
                  firstAt   |-> IF hist.calls = 0 THEN now ELSE hist.firstAt,
                  prevAt    |-> hist.lastAt,
                  lastAt    |-> now,
                  pre       |-> bucket.tokens,
                  mid       |-> Refill(bucket, now, limit).tokens,
                  result    |-> c.result,
                  prevResult |-> hist.result,
                  admittedAt |-> IF c.result.allowed
                                   THEN Append(hist.admittedAt, now)
                                   ELSE hist.admittedAt]
      /\ UNCHANGED <<now, limit, mgrVars, toolVars, app>>

NextBucket == Tick \/ BucketConsume

SpecBucket == InitBucket /\ [][NextBucket]_vars

\* The same bucket with a clock that keeps advancing (up to MaxTime) and a
\* client that keeps calling.
LiveBucket ==
  InitBucket /\ [][NextBucket]_vars /\ WF_vars(Tick) /\ WF_vars(BucketConsume)

\* ------------------------------------------- the manager and two identities
InitManager ==
  /\ now = 0
  /\ limit \in 1..MaxCapacity
  /\ BucketIdle
  /\ MgrIdle
  /\ ToolsIdle
  /\ app = NoApp

\* manager.consume(c).  mgr.ref[c] is a TokenBucket(limit, windowMs) of the
\* identity's own, constructed at its first call and consumed at each of
\* its calls, outside the manager.
ManagerCall(c) ==
  LET m    == ManagerConsume(buckets, c, now, limit)
      own  == IF mgr.ref[c] = NoBucket THEN NewBucket(limit, now) ELSE mgr.ref[c]
      solo == Consume(own, now, limit)
  IN  /\ buckets' = m.buckets
      /\ mgr' = [caller    |-> c,
                 result    |-> m.result,
                 refResult |-> solo.result,
                 made      |-> [mgr.made EXCEPT ![c] = @ + (IF m.made THEN 1 ELSE 0)],
                 ref       |-> [mgr.ref EXCEPT ![c] = solo.bucket]]
      /\ UNCHANGED <<now, limit, bucketVars, toolVars, app>>

NextManager == Tick \/ \E c \in Clients : ManagerCall(c)

SpecManager == InitManager /\ [][NextManager]_vars

\* ----------------------------------------------- the tools behind one bucket
\* The largest page size and cursor asked for, the longest batch and the
\* largest total the catalog answers with.
MaxLimit == 2
MaxCursor == 3
MaxItems == 3
MaxTotal == 4

Str_chicken == <<"c", "h", "i", "c", "k", "e", "n">>
Str_rice == <<"r", "i", "c", "e">>
Str_chicken_rice == <<"c", "h", "i", "c", "k", "e", "n", ",", " ", "r", "i", "c", "e">>
Str_q_chick == <<"\"", "c", "h", "i", "c", "k", "\"">>

\* The search requests explored.
SearchRequests ==
  [limit : 1..MaxLimit, cursor : 0..MaxCursor,
   sortBy : {"none", "protein_desc", "carbs_asc"},
   includeIngredients : {<<>>, Str_chicken, Str_chicken_rice, Str_q_chick},
   excludeIngredients : {<<>>, Str_rice}]

\* The batches the catalog answers with.
ItemSeqs == {q \in SeqsUpTo(Catalog, MaxItems) : NoRepeat(q)}

\* The catalog's answer to the request of invocation c: the batch q with
\* the total t and the hasMore flag h.
CatalogResponse(c, q, t, h) ==
  [items |-> q,
   meta  |-> [total |-> t, limit |-> c.apiParams.limit,
              offset |-> c.apiParams.offset, hasMore |-> h]]

HasMoreFlags == {"absent", "true", "false"}

\* The answers explored: the metadata in full where the handler reads it
\* (pass-through mode), and as either the batch's length or a larger total,
\* without the flag, where it does not.
Explored(c, q, t, h) ==
  NeedsClientSideProcessing(c.params) =>
     /\ h = "absent"
     /\ t \in {Len(q), MaxTotal}

\* The requests and answers explored behind the rate limiter.
ToolRequests ==
  {[limit |-> 1, cursor |-> 0, sortBy |-> "none",
    includeIngredients |-> <<>>, excludeIngredients |-> <<>>],
   [limit |-> 1, cursor |-> 1, sortBy |-> "none",
    includeIngredients |-> Str_chicken, excludeIngredients |-> <<>>]}

ToolCatalogResponses(c) ==
  {CatalogResponse(c, q, Len(q), "absent") :
     q \in {<<ItemMeal, ItemChicken>>, <<ItemBare>>, <<ItemTagged>>}}

InitTools ==
  /\ now = 0
  /\ limit \in 1..MaxCapacity
  /\ BucketIdle
  /\ MgrIdle
  /\ ToolsIdle
  /\ app = NoApp

\* A tool is invoked: the handler runs from the rate limit check to its
\* first await, or to its end.
Invoke(tool, params, inputOk) ==
  /\ call.pc = "idle"
  /\ LET m == ManagerConsume(buckets, ClientId, now, limit)
         a == Admission(tool, params, inputOk, m.result)
     IN  /\ buckets' = m.buckets
         /\ call' = a.call
         /\ reply' = a.reply
  /\ UNCHANGED <<now, limit, bucketVars, mgr, app, conc>>

\* Settled giving the token back when the client call did not resolve.
SettledRefunds(outcome) ==
  /\ call.pc # "idle"
  /\ LET r == Settle(call, outcome)
     IN  /\ call' = r.call
         /\ reply' = r.reply
  /\ buckets' = IF outcome.kind \in {"ok", "leak", "null"}
                  THEN buckets
                  ELSE [buckets EXCEPT ![ClientId].tokens = @ + WindowMs]
  /\ UNCHANGED <<now, limit, bucketVars, mgr, app, conc>>

\* The awaited client call settles and the handler runs on.
Settled(outcome) ==
  /\ call.pc # "idle"
  /\ LET r == Settle(call, outcome)
     IN  /\ call' = r.call
         /\ reply' = r.reply
  /\ UNCHANGED <<now, limit, bucketVars, mgrVars, app, conc>>

InvokeSearch == \E p \in ToolRequests : Invoke("search_products", p, TRUE)

InvokeOther ==
  \E tool \in Tools \ {"search_products"}, inputOk \in BOOLEAN :
     Invoke(tool, NoParams, inputOk)

SettledSearch ==
  /\ call.tool = "search_products"
  /\ \/ \E v \in ToolCatalogResponses(call) :
          Settled([kind |-> "ok", value |-> v, error |-> NoError])
     \/ \E k \in OutcomeKinds(call) \ {"ok"} : \E e \in SearchErrors(k) :
          Settled([kind |-> k, value |-> NoCatalogResponse, error |-> e])

SettledOther ==
  /\ call.tool # "search_products"
  /\ \E k \in OutcomeKinds(call) :
        Settled([kind |-> k, value |-> NoCatalogResponse, error |-> NoError])

NextTools == Tick \/ InvokeSearch \/ InvokeOther \/ SettledSearch \/ SettledOther

SpecTools == InitTools /\ [][NextTools]_vars

\* --------------------------------------- search_products after its one fetch
\* An admitted search_products invocation awaits the catalog.
InitSearch ==
  LET m == ManagerConsume(NoBuckets, ClientId, 0, MaxCapacity)
  IN  /\ now = 0
      /\ limit = MaxCapacity
      /\ BucketIdle
      /\ buckets = m.buckets
      /\ mgr = [caller |-> "none", result |-> NoResult, refResult |-> NoResult,
                made |-> [c \in Clients |-> 0], ref |-> NoBuckets]
      /\ reply = NoReply
      /\ conc = NoConc
      /\ app = NoApp
      /\ \E p \in SearchRequests :
            call = Awaits("search_products", "fetching", p, RateLimitOf(m.result), 0)

\* The catalog answers with a batch that passes the schema.
SearchFetched ==
  \E q \in ItemSeqs, t \in 0..MaxTotal, h \in HasMoreFlags :
     /\ Explored(call, q, t, h)
     /\ Settled([kind |-> "ok", value |-> CatalogResponse(call, q, t, h),
                 error |-> NoError])

NextSearch == SearchFetched

SpecSearch == InitSearch /\ [][NextSearch]_vars

\* ------------------------------------- invocations of one identity together
\* The tools invoked together and the search request they make.
ConcTools == {"search_products", "get_curation_list"}

ConcParams(tool) ==
  IF tool = "search_products"
    THEN [limit |-> 1, cursor |-> 0, sortBy |-> "none",
          includeIngredients |-> <<>>, excludeIngredients |-> <<>>]
    ELSE NoParams

\* What the observation becomes when a consume() at instant t finds `mid`
\* tokens after its refill and returns `result`.
Observe(obs, t, mid, result) ==
  LET first == obs.at # t
      seen  == IF first THEN <<>> ELSE obs.observed
      given == IF first THEN <<>> ELSE obs.remaining
  IN  [at        |-> t,
       avail     |-> IF first THEN mid ELSE obs.avail,
       observed  |-> IF result.allowed THEN Append(seen, mid) ELSE seen,
       remaining |-> IF result.allowed THEN Append(given, result.remaining) ELSE given]

InitConc ==
  /\ now = 0
  /\ limit \in 1..MaxCapacity
  /\ BucketIdle
  /\ MgrIdle
  /\ ToolsIdle
  /\ app = NoApp

\* A tool is invoked while other invocations of the identity may be
\* suspended: handler h runs from the rate limit check to its first await,
\* or to its end, without yielding.
ConcInvoke(h, tool) ==
  /\ conc.flight[h].pc = "idle"
  /\ LET b == IF buckets[ClientId] # NoBucket
                THEN buckets[ClientId] ELSE NewBucket(limit, now)
         m == ManagerConsume(buckets, ClientId, now, limit)
         a == Admission(tool, ConcParams(tool), TRUE, m.result)
     IN  /\ buckets' = m.buckets
         /\ conc' = [flight |-> [conc.flight EXCEPT ![h] = a.call],
                     obs    |-> Observe(conc.obs, now, Refill(b, now, limit).tokens,
                                        m.result)]
  /\ UNCHANGED <<now, limit, bucketVars, mgr, call, reply, app>>

\* The client call handler h awaits settles and the handler runs on to its
\* next await or to its end.  The responses are not observed here.
ConcSettled(h, outcome) ==
  /\ conc.flight[h].pc # "idle"
  /\ conc' = [conc EXCEPT !.flight[h] = Settle(conc.flight[h], outcome).call]
  /\ UNCHANGED <<now, limit, bucketVars, mgrVars, call, reply, app>>

ConcInvoked == \E h \in Handlers, tool \in ConcTools : ConcInvoke(h, tool)

ConcFetched ==
  \E h \in Handlers :
     ConcSettled(h, [kind  |-> "ok",
                     value |-> IF conc.flight[h].tool = "search_products"
                                 THEN CatalogResponse(conc.flight[h], <<ItemBare>>, 1, "absent")
                                 ELSE NoCatalogResponse,
                     error |-> NoError])

NextConc == Tick \/ ConcInvoked \/ ConcFetched

SpecConc == InitConc /\ [][NextConc]_vars

\* --------------------------------------------- one term against one candidate
\* Terms as the handler gets them from the split, quoted and unquoted.
Str_q_chicken_meal == <<"\"", "c", "h", "i", "c", "k", "e", "n", " ", "m", "e", "a", "l", "\"">>
Str_q_Chicken == <<"\"", "C", "h", "i", "c", "k", "e", "n", "\"">>
Str_chick == <<"c", "h", "i", "c", "k">>
Str_q_rice == <<"\"", "r", "i", "c", "e", "\"">>
Str_q_amp == <<"\"", "k", "&", "p", "\"">>
Str_amp == <<"k", "&", "p">>
Str_q_empty == <<"\"", "\"">>
Str_meal == <<"M", "E", "A", "L">>
Str_q_meal == <<"\"", "m", "e", "a", "l", "\"">>
Str_zzz == <<"z", "z", "z">>
Str_q_fish_broth == <<"\"", "f", "i", "s", "h", " ", "b", "r", "o", "t", "h", "\"">>
Str_q_bo == <<"\"", "b", "o", "\"">>
Str_q_en == <<"\"", "e", "n", "\"">>

MatchTerms ==
  {Str_chicken, Str_rice, Str_q_chicken_meal, Str_q_chick, Str_q_Chicken, Str_chick, Str_q_rice, Str_q_amp,
   Str_amp, Str_q_empty, Str_meal, Str_q_meal, Str_zzz, Str_q_fish_broth, Str_q_bo, Str_q_en}

\* An item with a character in its preview that is no word character, and
\* with an underscore inside a word.
ItemAmp ==
  [id |-> "p5", name |-> <<"F", "i", "g">>, brand |-> <<"B", "o">>,
   conditionTags |-> <<>>,
   ingredientsPreview |-> <<<<"c", "h", "i", "c", "k", "&", "p", "e", "a", "s">>,
                            <<"c", "h", "i", "c", "k", "_", "p", "e", "a", "s">>>>,
   ingredientsFull |-> <<>>,
   detailUrl |-> <<"/", "p", "/", "5">>,
   protein |-> 20, fat |-> 5, moisture |-> 10, carbEstimated |-> 999]

\* The filter's test of one raw term on one item: the term is parsed, then
\* matched (the precompiled expression is the one matchIngredient builds).
MatchesTerm(term, item) ==
  MatchIngredient(ParseMatchType(term).value, item, ParseMatchType(term).type)

InitMatch ==
  /\ now = 0
  /\ limit = MaxCapacity
  /\ BucketIdle
  /\ MgrIdle
  /\ ToolsIdle
  /\ \E term \in MatchTerms, item \in Catalog \cup {ItemAmp} :
       app = [fn |-> "matchIngredient", args |-> <<term, item>>, result |-> <<>>]

\* The term is parsed and matched against the item.
ApplyMatch ==
  /\ app.fn = "matchIngredient"
  /\ app.result = <<>>
  /\ app' = [app EXCEPT !.result = <<MatchesTerm(app.args[1], app.args[2])>>]
  /\ UNCHANGED <<now, limit, bucketVars, mgrVars, toolVars>>

NextMatch == ApplyMatch

SpecMatch == InitMatch /\ [][NextMatch]_vars

\* ------------------------------------------------------- sortProducts alone
\* The sort keys: the four of the input schema and one sortProducts does
\* not know.
SortKeys == {"protein_desc", "carbs_asc", "fat_desc", "moisture_desc", "name_asc"}

\* The lists sorted.
SortInputs == {q \in SeqsUpTo(Catalog \cup {ItemAmp}, MaxItems) : NoRepeat(q)}

\* The list passed to sortProducts as it is after the call: the function
\* sorts a copy ([...items]).
InputAfterSort(items, sortBy) == items

\* `given` is the list as drawn, args[1] the same list object as it is now.
InitSort ==
  /\ now = 0
  /\ limit = MaxCapacity
  /\ BucketIdle
  /\ MgrIdle
  /\ ToolsIdle
  /\ \E items \in SortInputs, sortBy \in SortKeys :
       app = [fn |-> "sortProducts", given |-> items, args |-> <<items, sortBy>>,
              result |-> <<>>]

\* sortProducts(items, sortBy) is called.
ApplySort ==
  /\ app.fn = "sortProducts"
  /\ app.result = <<>>
  /\ app' = [app EXCEPT
               !.args = <<InputAfterSort(app.args[1], app.args[2]), app.args[2]>>,
               !.result = <<SortProducts(app.args[1], app.args[2])>>]
  /\ UNCHANGED <<now, limit, bucketVars, mgrVars, toolVars>>

NextSort == ApplySort

SpecSort == InitSort /\ [][NextSort]_vars

\* ------------------------------------- search_products and its term lists
Str_q_us == <<"\"", "k", "_", "p", "\"">>
Str_us == <<"k", "_", "p">>
Str_chicken_comma == <<"c", "h", "i", "c", "k", "e", "n", ",">>
Str_rice_comma == <<"r", "i", "c", "e", ",">>
Str_blank == <<" ">>

\* The term lists explored: quoted literals with characters that are no
\* letters or digits, and lists with an element that is empty once trimmed.
TermIncludes ==
  {<<>>, Str_q_amp, Str_amp, Str_q_us, Str_us, Str_chicken, Str_chicken_comma,
   Str_blank}
TermExcludes ==
  {<<>>, Str_q_amp, Str_q_us, Str_rice, Str_rice_comma, Str_blank}

\* The requests explored: one page that holds the whole batch.
TermRequests ==
  [limit : {MaxItems}, cursor : {0}, sortBy : {"none"},
   includeIngredients : TermIncludes, excludeIngredients : TermExcludes]

\* The batches the catalog answers them with.
TermBatches ==
  {q \in SeqsUpTo({ItemAmp, ItemChicken, ItemMeal, ItemBare}, MaxItems) : NoRepeat(q)}

\* An admitted search_products invocation with term lists awaits the
\* catalog.
InitTerms ==
  LET m == ManagerConsume(NoBuckets, ClientId, 0, MaxCapacity)
  IN  /\ now = 0
      /\ limit = MaxCapacity
      /\ BucketIdle
      /\ buckets = m.buckets
      /\ mgr = [caller |-> "none", result |-> NoResult, refResult |-> NoResult,
                made |-> [c \in Clients |-> 0], ref |-> NoBuckets]
      /\ reply = NoReply
      /\ conc = NoConc
      /\ app = NoApp
      /\ \E p \in TermRequests :
            call = Awaits("search_products", "fetching", p, RateLimitOf(m.result), 0)

\* The catalog answers with a batch that passes the schema.
TermsFetched ==
  \E q \in TermBatches :
     Settled([kind |-> "ok", value |-> CatalogResponse(call, q, Len(q), "absent"),
              error |-> NoError])

NextTerms == TermsFetched

SpecTerms == InitTerms /\ [][NextTerms]_vars

\* ------------------------------------------- one request, page after page
\* The client-processed requests paged through, from cursor 0.
PageRequests ==
  {p \in [limit : 1..MaxLimit, cursor : {0},
           sortBy : {"none", "protein_desc", "carbs_asc"},
           includeIngredients : {<<>>, Str_chicken},
           excludeIngredients : {<<>>, Str_rice}] : NeedsClientSideProcessing(p)}

\* The catalog's unchanging answer to the request: the batch q.
PageBatch(p, q) ==
  [items |-> q,
   meta  |-> [total |-> Len(q), limit |-> ApiParams(p).limit,
              offset |-> ApiParams(p).offset, hasMore |-> "absent"]]

\* A caller is about to page through the results of one request.
InitPages ==
  /\ now = 0
  /\ limit = MaxCapacity
  /\ BucketIdle
  /\ MgrIdle
  /\ ToolsIdle
  /\ \E p \in PageRequests, q \in ItemSeqs :
       app = [fn |-> "pages", args |-> <<p, q>>, cursor |-> 0, got |-> <<>>,
              requests |-> 0, state |-> "paging", result |-> <<>>]

\* The caller issues the request with the cursor it holds and reads the
\* response: the items, the next cursor and hasMore.  It stops at an error
\* response and at hasMore = false.
FetchPage ==
  /\ app.fn = "pages"
  /\ app.state = "paging"
  /\ app.requests <= MaxItems
  /\ LET p        == [app.args[1] EXCEPT !.cursor = app.cursor]
         response == SearchRespond(p, PageBatch(p, app.args[2]), NoRateLimit)
     IN  app' = IF response.type # "OK"
                  THEN [app EXCEPT !.requests = @ + 1, !.state = "failed",
                                   !.result = <<response>>]
                  ELSE [app EXCEPT !.requests = @ + 1,
                                   !.cursor = response.data.cursor,
                                   !.got = @ \o [i \in 1..Len(response.data.items) |->
                                                   response.data.items[i].id],
                                   !.state = IF response.data.hasMore
                                               THEN "paging" ELSE "done",
                                   !.result = <<response>>]
  /\ UNCHANGED <<now, limit, bucketVars, mgrVars, toolVars>>

NextPages == FetchPage

SpecPages == InitPages /\ [][NextPages]_vars

\* ------------------------------------------------ the catalog request alone
\* The largest page size asked for when only the catalog request is built:
\* twice this exceeds CLIENT_SIDE_PROCESSING_BATCH_SIZE.
MaxBatchLimit == 101

\* The requests whose catalog request is built; limit 0 is an absent limit.
ApiRequests ==
  [limit : 0..MaxBatchLimit, cursor : 0..MaxCursor,
   sortBy : {"none", "carbs_asc"},
   includeIngredients : {<<>>, Str_chicken},
   excludeIngredients : {<<>>, Str_rice}]

InitApi ==
  /\ now = 0
  /\ limit = MaxCapacity
  /\ BucketIdle
  /\ MgrIdle
  /\ ToolsIdle
  /\ \E p \in ApiRequests :
       app = [fn |-> "apiParams", args |-> <<p>>, result |-> <<>>]

\* Step 2 of the handler builds the catalog request.
ApplyApi ==
  /\ app.fn = "apiParams"
  /\ app.result = <<>>
  /\ app' = [app EXCEPT !.result = <<ApiParams(app.args[1])>>]
  /\ UNCHANGED <<now, limit, bucketVars, mgrVars, toolVars>>

NextApi == ApplyApi

SpecApi == InitApi /\ [][NextApi]_vars

\* --------------------------------------------------- claims on one bucket
\* C1 (as claimed): a fresh bucket admits its first `capacity` calls and
\* denies the (capacity+1)-th whenever that call is made less than windowMs
\* after the bucket was created, whatever the timing of the calls.
C1_DeniesWithinWindow ==
  /\ (hist.calls \in 1..limit) => hist.result.allowed
  /\ (hist.calls = limit + 1 /\ hist.lastAt - hist.createdAt < WindowMs)
       => ~hist.result.allowed

\* C1 (amended): a fresh bucket admits its first `capacity` calls, and denies
\* the (capacity+1)-th when no clock time has elapsed since the first call.
C1_DeniesAtSameInstant ==
  /\ (hist.calls \in 1..limit) => hist.result.allowed
  /\ (hist.calls = limit + 1 /\ hist.lastAt = hist.firstAt)
       => ~hist.result.allowed

\* C1 witness: the (capacity+1)-th call of a burst made some time after the
\* bucket was created, inside its first window, has been denied.
C1_Witness ==
  /\ hist.calls = limit + 1
  /\ hist.lastAt = hist.firstAt
  /\ hist.firstAt > 0
  /\ hist.firstAt < WindowMs
  /\ limit > 1
  /\ ~hist.result.allowed

\* C2: in every reachable state the token count is within [0, capacity].
C2_TokensInRange ==
  /\ 0 <= bucket.tokens
  /\ bucket.tokens <= limit * WindowMs

\* C3: every result carries a non-negative integer `remaining`: an admitted
\* call returns floor(tokens after the decrement), within 0..capacity-1, and
\* a denied call returns 0.
C3_RemainingRange ==
  hist.calls > 0 =>
    IF hist.result.allowed
      THEN /\ hist.result.remaining = Floor(bucket.tokens)
           /\ 0 <= hist.result.remaining
           /\ hist.result.remaining <= limit - 1
      ELSE hist.result.remaining = 0

\* C4: a call made e > 0 after the previous call (or after construction)
\* first raises tokens to min(capacity, tokens + e * capacity / windowMs);
\* from tokens = 0 a full window gives an admitted call with
\* remaining = capacity - 1, and half a window gives capacity / 2 tokens
\* before the decrement.
C4_ProportionalRefill ==
  LET e == hist.lastAt - hist.prevAt
  IN  (hist.calls > 0 /\ e > 0) =>
        /\ hist.mid = Min(limit * WindowMs, hist.pre + e * limit)
        /\ bucket.lastRefill = hist.lastAt
        /\ (hist.pre = 0 /\ e = WindowMs) =>
             /\ hist.result.allowed
             /\ hist.result.remaining = limit - 1
        /\ (hist.pre = 0 /\ 2 * e = WindowMs) => 2 * hist.mid = limit * WindowMs

\* C4 witness: an emptied bucket was called again exactly one window later
\* and the call was admitted with capacity - 1 remaining.
C4_Witness ==
  /\ hist.calls > limit
  /\ hist.pre = 0
  /\ hist.lastAt - hist.prevAt = WindowMs
  /\ hist.result.allowed
  /\ hist.result.remaining = limit - 1
  /\ limit > 1

\* C17: at every consume(), admitted or denied, the returned resetEpochMs
\* is the bucket's lastRefill as the call's refill step left it plus the
\* window, hence the time of the call plus the window whenever time has
\* advanced since the previous call.
C17_ResetIsLastRefillPlusWindow ==
  (hist.calls > 0) =>
     /\ hist.result.resetEpochMs = bucket.lastRefill + WindowMs
     /\ (hist.lastAt > hist.prevAt) =>
          hist.result.resetEpochMs = hist.lastAt + WindowMs

\* C17 witness: a call made after time had advanced was denied, its
\* resetEpochMs one window after the call.
C17_Witness ==
  /\ hist.calls > 1
  /\ ~hist.result.allowed
  /\ hist.lastAt > hist.prevAt
  /\ hist.result.resetEpochMs = hist.lastAt + WindowMs

\* C18: when a consume() is denied with resetEpochMs = R, the next
\* consume() on the bucket, made at a time >= R, is admitted.
C18_AdmittedFromReset ==
  (/\ hist.calls >= 2
   /\ ~hist.prevResult.allowed
   /\ hist.lastAt >= hist.prevResult.resetEpochMs) => hist.result.allowed

\* C18 witness: a call was denied while the bucket held less than no token,
\* and the next call, made exactly at the denial's resetEpochMs, was
\* admitted.
C18_Witness ==
  /\ hist.calls >= 3
  /\ ~hist.prevResult.allowed
  /\ hist.pre < 0
  /\ hist.lastAt = hist.prevResult.resetEpochMs
  /\ hist.result.allowed

\* The number of calls admitted from instant t0 to instant t0 + WindowMs.
AdmittedInWindow(t0) ==
  Cardinality({i \in 1..Len(hist.admittedAt) :
                 hist.admittedAt[i] >= t0 /\ hist.admittedAt[i] <= t0 + WindowMs})

\* C23: in every interval of length windowMs the bucket admits at most
\* 2 * capacity calls.
C23_AtMostTwiceCapacityPerWindow ==
  \A t0 \in 0..MaxTime : AdmittedInWindow(t0) <= 2 * limit

\* C23 witness: a bucket of capacity 2 or more admitted exactly
\* 2 * capacity calls in one interval that does not start at its creation.
C23_Witness ==
  /\ limit >= 2
  /\ \E t0 \in 1..MaxTime : AdmittedInWindow(t0) = 2 * limit

\* The latest call was denied, a window or more before the clock's end.
DeniedEarly ==
  /\ hist.calls > 0
  /\ ~hist.result.allowed
  /\ hist.lastAt + WindowMs <= MaxTime

\* C24: while the clock advances and the client keeps calling, a denied
\* call is eventually followed by an admitted one.
C24_DenialLeadsToAdmission == DeniedEarly ~> hist.result.allowed

\* C24 witness: a call was denied and the next call was admitted before
\* the denial's resetEpochMs, on the tokens refilled since.
C24_Witness ==
  /\ hist.calls >= 2
  /\ ~hist.prevResult.allowed
  /\ hist.prevAt + WindowMs <= MaxTime
  /\ hist.result.allowed
  /\ hist.lastAt < hist.prevResult.resetEpochMs

\* -------------------------------------------------- claims on the manager
\* Each identity's bucket is the bucket it would have had if no other
\* identity had ever called the manager.
AsIfAlone == \A b \in Clients : buckets[b] = mgr.ref[b]

\* C5: a consume() of one identity leaves every other identity's bucket
\* (tokens, lastRefill) unchanged, so every bucket is always the one its
\* identity would have had if the others had never called.
C5_IdentitiesIndependent ==
  /\ []AsIfAlone
  /\ [][\A a \in Clients :
         (now' = now /\ mgr'.caller = a) =>
            \A b \in Clients \ {a} : buckets'[b] = buckets[b]]_vars

\* C5 witness: client-a has just been denied while client-b, which called
\* before, still holds tokens.
C5_Witness ==
  /\ mgr.caller = "client-a"
  /\ ~mgr.result.allowed
  /\ buckets["client-a"].tokens = 0
  /\ buckets["client-b"] # NoBucket
  /\ buckets["client-b"].tokens > 0

\* C6: the manager constructs at most one bucket per identity, on its first
\* call, and every result equals the result of the same call on a single
\* TokenBucket constructed at the identity's first call.
C6_OneBucketPerIdentity ==
  /\ \A c \in Clients : mgr.made[c] <= 1
  /\ \A c \in Clients : (mgr.made[c] = 1) <=> (buckets[c] # NoBucket)
  /\ mgr.result = mgr.refResult

\* C6 witness: an identity's later call, after time has passed, was served
\* by the bucket made at its first call.
C6_Witness ==
  /\ mgr.caller = "client-b"
  /\ mgr.made["client-b"] = 1
  /\ mgr.result.allowed
  /\ mgr.result.remaining < limit - 1
  /\ buckets["client-b"].lastRefill > 0

\* ---------------------------------------------------- claims on the tools
\* C7: a search_products invocation the rate limiter denies returns the
\* RATE_LIMITED response without a catalog fetch; an admitted one makes
\* exactly one catalog fetch, and when that fetch settles, however it does,
\* the invocation ends without another.
C7_SearchFetchesOnce ==
  /\ [](/\ (call.tool = "search_products") => call.fetches = 1
        /\ (reply.tool = "search_products" /\ ~reply.admitted) =>
              /\ reply.kind = "response"
              /\ reply.response.type = "RATE_LIMITED"
              /\ reply.fetches = 0
        /\ (reply.tool = "search_products" /\ reply.admitted) =>
              reply.fetches = 1)
  /\ [][(call.tool = "search_products" /\ call' # call) =>
          /\ call' = IdleCall
          /\ reply'.tool = "search_products"
          /\ reply'.admitted
          /\ reply'.fetches = call.fetches]_vars

\* C7 witness: a search_products invocation has just been denied, the
\* bucket empty, and ended without a fetch.
C7_Witness ==
  /\ reply.tool = "search_products"
  /\ ~reply.admitted
  /\ reply.response.type = "RATE_LIMITED"
  /\ reply.fetches = 0
  /\ buckets[ClientId].tokens <= 0
  /\ call = IdleCall

\* C8: every invocation of every tool ends by returning a response that
\* carries rateLimit; none ends by an exception leaving the handler.
C8_AlwaysRespondsWithRateLimit ==
  (reply.tool # "none") =>
     /\ reply.kind = "response"
     /\ reply.response.hasRateLimit

\* The search_products invocation that ended was admitted and its fetch
\* rejected with an error other than NotFoundError.
FetchFailed ==
  /\ reply.tool = "search_products"
  /\ reply.admitted
  /\ reply.error.name \notin {"none", "NotFoundError"}

\* The search_products invocation that ended was admitted, its fetch
\* resolved, and the result built from the answer holds an affiliate
\* pattern, so that the safeguard threw.
SafeguardThrew ==
  /\ reply.tool = "search_products"
  /\ reply.admitted
  /\ reply.error = NoError
  /\ reply.catalog # NoCatalogResponse
  /\ \/ reply.params.includeIngredients = <<>> /\ reply.params.excludeIngredients = <<>>
     \/ HasIngredientData(reply.catalog.items)
  /\ SearchResultLeaks(
       SearchResult(Paginate(ProcessedItems(reply.catalog.items, reply.params),
                             reply.catalog.meta, reply.params),
                    reply.params, <<>>).items)

\* The errors a search_products handler can catch, other than
\* NotFoundError.
Failures ==
  {AffiliateLeakError} \cup SearchErrors("invalid") \cup SearchErrors("error")

\* C19: when search_products fails after admission with anything but a
\* not-found error, its response is the INTERNAL error with the one fixed
\* message and no data, and it is the response the handler gives for every
\* other failure under the same rate-limit metadata.
C19_InternalErrorIsFixed ==
  (FetchFailed \/ SafeguardThrew) =>
     /\ reply.kind = "response"
     /\ reply.response =
          [isError |-> TRUE, type |-> "INTERNAL",
           message |-> "Service temporarily unavailable",
           hasRateLimit |-> TRUE, rateLimit |-> reply.response.rateLimit,
           data |-> NoData]
     /\ \A e \in Failures :
          SearchCatch(e, reply.response.rateLimit) = reply.response

\* C19 witness: the catalog answered with a server error whose body the
\* error carries, and the handler responded with the internal error.
C19_Witness ==
  /\ FetchFailed
  /\ reply.error = [name |-> "ServerError", message |-> "upstream body A"]
  /\ reply.response.type = "INTERNAL"
  /\ reply.response.message # reply.error.message

\* A step in which a tool is invoked: no invocation was in progress and
\* the clock did not move.
InvokeStep == call.pc = "idle" /\ now' = now /\ vars' # vars

\* A step in which a suspended invocation runs on.
SettleStep == call.pc # "idle" /\ vars' # vars

\* The tokens (in units of 1/WindowMs) the identity's bucket holds once
\* refilled at the present instant; a bucket not yet made is full.
TokensRefilled ==
  IF buckets[ClientId] = NoBucket
    THEN limit * WindowMs
    ELSE LET b == buckets[ClientId]
             refilled == b.tokens + (now - b.lastRefill) * limit
         IN  IF refilled <= limit * WindowMs THEN refilled ELSE limit * WindowMs

\* C25: a tool invocation takes exactly one token from its identity's
\* bucket when it is admitted and none when it is denied, and the rest of
\* the invocation, whatever its outcome, leaves the bucket alone.
C25_OneTokenPerAdmittedInvocation ==
  [][/\ InvokeStep =>
          buckets'[ClientId].tokens =
            IF call'.pc # "idle" \/ reply'.admitted
              THEN TokensRefilled - WindowMs
              ELSE TokensRefilled
     /\ SettleStep => buckets' = buckets]_vars

\* C25 witness: the one invocation made so far was admitted and ended with
\* the internal error, and the bucket holds its capacity less one token.
C25_Witness ==
  /\ now = 0
  /\ call.pc = "idle"
  /\ reply.admitted
  /\ reply.response.type = "INTERNAL"
  /\ buckets[ClientId].tokens = (limit - 1) * WindowMs

\* ------------------------------------------- claims on the search pipeline
\* The last search_products invocation was admitted and returned a result.
SearchSucceeded ==
  /\ reply.tool = "search_products"
  /\ reply.kind = "response"
  /\ reply.response.type = "OK"

\* The ids of a sequence of items.
Ids(items) == [i \in 1..Len(items) |-> items[i].id]

\* The filtered (and sorted) list of the last invocation.
Filtered == ProcessedItems(reply.catalog.items, reply.params)

C10_PassThroughPage ==
  (SearchSucceeded /\ ~NeedsClientSideProcessing(reply.params)) =>
     LET data == reply.response.data
         meta == reply.catalog.meta
         c    == reply.params.cursor
         l    == reply.params.limit
     IN  /\ data.total = meta.total
         /\ data.hasMore = CASE meta.hasMore = "true"  -> TRUE
                             [] meta.hasMore = "false" -> FALSE
                             [] OTHER -> meta.total > c + l
         /\ data.cursor = IF data.hasMore THEN c + Len(data.items) ELSE c

\* C10 witness: an unfiltered, unsorted search returned items while the
\* catalog's hasMore flag said no more, against its own total.
C10_Witness ==
  /\ SearchSucceeded
  /\ ~NeedsClientSideProcessing(reply.params)
  /\ reply.catalog.meta.hasMore = "false"
  /\ reply.catalog.meta.total > reply.params.cursor + reply.params.limit
  /\ Len(reply.response.data.items) = 2
  /\ reply.params.cursor = 2
  /\ ~reply.response.data.hasMore
  /\ reply.response.data.cursor = 2

\* ----------------------------------------- claims on the catalog request
ApiBuilt == app.fn = "apiParams" /\ app.result # <<>>

\* C21: in client-processed mode (sortBy, includeIngredients or
\* excludeIngredients set) the catalog is asked for offset 0 and
\* min(2 * limit, 200) items, 50 when limit is absent, whatever the cursor;
\* otherwise it is asked for the caller's limit at offset = cursor.
C21_CatalogRequest ==
  ApiBuilt =>
     LET p == app.args[1]
         r == app.result[1]
     IN  IF p.sortBy # "none" \/ p.includeIngredients # <<>> \/ p.excludeIngredients # <<>>
           THEN /\ r.offset = 0
                /\ r.limit = IF p.limit = 0 THEN 50
                             ELSE IF 2 * p.limit <= 200 THEN 2 * p.limit ELSE 200
           ELSE /\ r.offset = p.cursor
                /\ p.limit # 0 => r.limit = p.limit

\* C21 witness: a sorted request for 101 items at cursor 3 asks the catalog
\* for 200 items at offset 0.
C21_Witness ==
  /\ ApiBuilt
  /\ app.args[1].limit = 101
  /\ app.args[1].cursor = 3
  /\ app.args[1].sortBy = "carbs_asc"
  /\ app.result[1] = [limit |-> 200, offset |-> 0]

\* The batch size of the last invocation's request.
BatchSizeAsked ==
  IF 2 * reply.params.limit <= 200 THEN 2 * reply.params.limit ELSE 200

\* The result stays inside the first BatchSizeAsked items of the catalog:
\* the total is no more than that, every returned item is one of them, and
\* a cursor at or past that gives no item and hasMore = false.
WithinFirstBatch ==
  LET data  == reply.response.data
      first == Ids(Slice(reply.catalog.items, 0, BatchSizeAsked))
  IN  /\ data.total <= BatchSizeAsked
      /\ \A i \in 1..Len(data.items) :
            \E j \in 1..Len(first) : data.items[i].id = first[j]
      /\ reply.params.cursor >= BatchSizeAsked =>
            data.items = <<>> /\ ~data.hasMore

\* C26 as stated: in client-processed mode the result stays inside the
\* first batch-size items of the catalog.
C26_WithinFirstBatch ==
  (SearchSucceeded /\ NeedsClientSideProcessing(reply.params)) => WithinFirstBatch

\* C26: in client-processed mode, when the catalog answers with no more
\* items than the batch size asked for, the result stays inside the first
\* batch-size items of the catalog.
C26_WithinBatchAnswered ==
  (/\ SearchSucceeded
   /\ NeedsClientSideProcessing(reply.params)
   /\ Len(reply.catalog.items) <= BatchSizeAsked) => WithinFirstBatch

\* C26 witness: the catalog answered with a full batch and reported more
\* matching items, the cursor was at or past the batch size, and the result
\* holds no item and hasMore = false.
C26_Witness ==
  /\ SearchSucceeded
  /\ NeedsClientSideProcessing(reply.params)
  /\ Len(reply.catalog.items) = BatchSizeAsked
  /\ reply.catalog.meta.total > BatchSizeAsked
  /\ reply.params.cursor >= BatchSizeAsked
  /\ reply.response.data.items = <<>>
  /\ ~reply.response.data.hasMore

\* C28 as stated: a successful result holds no more items than the limit
\* asked for, in both modes, whatever the catalog answers.
C28_ItemsWithinLimit ==
  SearchSucceeded => Len(reply.response.data.items) <= reply.params.limit

\* C28: a successful result holds no more items than the limit asked for:
\* in client-processed mode whatever the catalog answers, in pass-through
\* mode when the catalog answers with no more items than the limit.
C28_ItemsWithinLimitOrAnswer ==
  (/\ SearchSucceeded
   /\ \/ NeedsClientSideProcessing(reply.params)
      \/ Len(reply.catalog.items) <= reply.params.limit) =>
     Len(reply.response.data.items) <= reply.params.limit

\* C28 witness: a sorted request for one item was answered by the catalog
\* with three, and the result holds one.
C28_Witness ==
  /\ SearchSucceeded
  /\ reply.params.sortBy # "none"
  /\ reply.params.limit = 1
  /\ reply.params.cursor = 0
  /\ Len(reply.catalog.items) = 3
  /\ Len(reply.response.data.items) = 1

\* C30: when ingredient terms are given and the catalog answers with an
\* empty batch, the response is the capability-mismatch VALIDATION error,
\* not a success with no items.
C30_EmptyBatchIsCapabilityMismatch ==
  (/\ reply.tool = "search_products"
   /\ reply.kind = "response"
   /\ reply.error = NoError
   /\ \/ reply.params.includeIngredients # <<>>
      \/ reply.params.excludeIngredients # <<>>
   /\ reply.catalog.items = <<>>) =>
     /\ reply.response.isError
     /\ reply.response.type = "VALIDATION"
     /\ reply.response.message =
          "Ingredient include/exclude filtering is not available for this environment"
     /\ reply.response.data = NoData

\* C30 witness: the include term was chicken, the catalog answered with no
\* item and a total of 0, and the response is the VALIDATION error.
C30_Witness ==
  /\ reply.tool = "search_products"
  /\ reply.kind = "response"
  /\ reply.params.includeIngredients = Str_chicken
  /\ reply.catalog.items = <<>>
  /\ reply.catalog.meta.total = 0
  /\ reply.response.type = "VALIDATION"

\* ------------------------------------------------ claims on the term match
\* A term was matched against an item, with this outcome.
Matched == app.fn = "matchIngredient" /\ app.result # <<>>

\* The term is wrapped in double quotes around at least one character.
Quoted(term) == Len(term) >= 3 /\ term[1] = "\"" /\ term[Len(term)] = "\""

\* The term without its quotes.
Unquote(term) == IF Quoted(term) THEN SubSeq(term, 2, Len(term) - 1) ELSE term

\* The searched fields of an item as they are.
Searched(item) ==
  <<item.name, item.brand>> \o item.conditionTags \o item.ingredientsPreview

\* `lit` is a substring of some searched field, letters compared without
\* regard to case.
SubstringOfField(lit, item) ==
  \E f \in 1..Len(Searched(item)) :
     Includes(ToLowerCase(Searched(item)[f]), ToLowerCase(lit))

\* `lit` occurs inside one searched field with a word boundary on both
\* sides: at each end, exactly one of the two neighbouring characters (the
\* field's edge counting as none) is a letter, a digit or an underscore.
BoundedInField(lit, item) ==
  \E f \in 1..Len(Searched(item)) :
     LET field == Searched(item)[f]
         Word(k) == k >= 1 /\ k <= Len(field) /\ IsWordChar(field[k])
     IN  \E i \in 0..(Len(field) - Len(lit)) :
            /\ ToLowerCase(SubSeq(field, i + 1, i + Len(lit))) = ToLowerCase(lit)
            /\ Word(i) # Word(i + 1)
            /\ Word(i + Len(lit)) # Word(i + Len(lit) + 1)

\* C12 as stated: an unquoted term matches iff its lower-cased value is a
\* substring of some searched field; a double-quoted term matches iff the
\* unquoted literal occurs inside a single searched field with a word
\* boundary on both sides.
C12_QuotedIsWordBounded ==
  Matched =>
     LET term == app.args[1]
         item == app.args[2]
     IN  app.result[1] = IF Quoted(term)
                           THEN BoundedInField(Unquote(term), item)
                           ELSE SubstringOfField(term, item)

\* The literal holds only letters, digits, underscores, white space and
\* - ' . ( )
SafeLiteral(lit) ==
  \A i \in 1..Len(lit) :
     IsWordChar(lit[i]) \/ IsSpace(lit[i]) \/ lit[i] \in {"-", "'", ".", "(", ")"}

\* C12: an unquoted term matches iff its lower-cased value is a substring
\* of some searched field; a double-quoted term whose literal holds only
\* letters, digits, underscores, white space and - ' . ( ) matches iff the
\* literal occurs inside a single searched field with a word boundary on
\* both sides; a double-quoted term with any other character matches iff
\* its literal is a substring of some searched field.
C12_QuotedSafeIsWordBounded ==
  Matched =>
     LET term == app.args[1]
         item == app.args[2]
     IN  app.result[1] = IF Quoted(term) /\ SafeLiteral(Unquote(term))
                           THEN BoundedInField(Unquote(term), item)
                           ELSE SubstringOfField(Unquote(term), item)

\* C12 witness: quoted "chicken meal" was matched against the candidate
\* whose only related ingredient is "Chicken", and did not match.
C12_Witness ==
  /\ Matched
  /\ app.args = <<Str_q_chicken_meal, ItemChicken>>
  /\ app.result = <<FALSE>>

\* The last search_products invocation filtered by ingredient terms.
Filtering ==
  reply.params.includeIngredients # <<>> \/ reply.params.excludeIngredients # <<>>

\* The term matches the candidate: in a word-bounded place for a quoted
\* term of safe characters, as a substring otherwise.
HasTerm(item, term) ==
  IF Quoted(term) /\ SafeLiteral(Unquote(term))
    THEN BoundedInField(Unquote(term), item)
    ELSE SubstringOfField(Unquote(term), item)

\* The places of the fetched batch whose candidate has every include term
\* and no exclude term of the request.
KeptPlaces ==
  LET batch == reply.catalog.items
      inc   == SplitTerms(reply.params.includeIngredients)
      exc   == SplitTerms(reply.params.excludeIngredients)
  IN  {i \in 1..Len(batch) :
         /\ \A t \in 1..Len(inc) : HasTerm(batch[i], inc[t])
         /\ \A t \in 1..Len(exc) : ~HasTerm(batch[i], exc[t])}

\* C11: a candidate of the fetched batch is kept iff every include term
\* matches it and no exclude term matches it, a term being matched against
\* name, brand, conditionTags and ingredientsPreview only: the result's
\* total counts exactly those candidates, every returned item is one of
\* them, and a first page long enough returns them all.
C11_KeptIffAllIncludedNoneExcluded ==
  (SearchSucceeded /\ Filtering) =>
     LET data == reply.response.data
     IN  /\ data.total = Cardinality(KeptPlaces)
         /\ \A j \in 1..Len(data.items) :
              \E i \in KeptPlaces : reply.catalog.items[i].id = data.items[j].id
         /\ (reply.params.cursor = 0 /\ reply.params.limit >= data.total) =>
              Len(data.items) = data.total

\* C11 witness: excluding rice dropped the candidate with rice in its
\* preview and kept the one with rice only in its full ingredient list.
C11_Witness ==
  /\ SearchSucceeded
  /\ reply.params.excludeIngredients = Str_rice
  /\ reply.params.includeIngredients = Str_chicken
  /\ reply.catalog.items = <<ItemMeal, ItemChicken, ItemBare>>
  /\ reply.response.data.total = 1
  /\ Ids(reply.response.data.items) = <<"p2">>

\* No candidate of the fetched batch has an ingredient in its preview or
\* in its full list.
NoIngredientData ==
  \A i \in 1..Len(reply.catalog.items) :
     /\ reply.catalog.items[i].ingredientsPreview = <<>>
     /\ reply.catalog.items[i].ingredientsFull = <<>>

\* C13: after its one fetch returned a batch, search_products answers with
\* the VALIDATION error, and no result, exactly when an include or exclude
\* parameter was given and no candidate of the batch has ingredient data,
\* whatever the terms are.
C13_CapabilityMismatch ==
  (reply.tool = "search_products" /\ reply.kind = "response" /\ reply.admitted) =>
     /\ reply.fetches = 1
     /\ (reply.response.type = "VALIDATION") <=> (Filtering /\ NoIngredientData)
     /\ (Filtering /\ NoIngredientData) =>
          /\ reply.response.isError
          /\ reply.response.data = NoData

\* C13 witness: an include term was given and the batch's only candidate
\* has no ingredient data; the answer is the VALIDATION error.
C13_Witness ==
  /\ reply.tool = "search_products"
  /\ reply.params.includeIngredients = Str_chicken
  /\ reply.catalog.items = <<ItemBare>>
  /\ reply.fetches = 1
  /\ reply.response.type = "VALIDATION"

\* The include and exclude terms of the last request.
IncludeTerms == SplitTerms(reply.params.includeIngredients)
ExcludeTerms == SplitTerms(reply.params.excludeIngredients)

\* The relaxed pass as stated: every include term and no exclude term,
\* quote-stripped, is a substring of a searched field of the candidate.
RelaxedEvery(item) ==
  /\ \A t \in 1..Len(IncludeTerms) : SubstringOfField(Unquote(IncludeTerms[t]), item)
  /\ \A t \in 1..Len(ExcludeTerms) : ~SubstringOfField(Unquote(ExcludeTerms[t]), item)

\* The quote-stripped term is a substring of the candidate's search text:
\* its searched fields lower-cased and joined by single spaces.
InText(term, item) ==
  Includes(ToLowerCase(JoinSpace(Searched(item))), ToLowerCase(Unquote(term)))

\* The relaxed pass as amended: some include term (or none given) and no
\* exclude term is a substring of the candidate's search text.
RelaxedSome(item) ==
  /\ \/ Len(IncludeTerms) = 0
     \/ \E t \in 1..Len(IncludeTerms) : InText(IncludeTerms[t], item)
  /\ \A t \in 1..Len(ExcludeTerms) : ~InText(ExcludeTerms[t], item)

\* C14 as stated: suggestions are produced iff strict filtering yields
\* zero items and the relaxed pass, every include term and no exclude term
\* matching as a plain substring, keeps a candidate; the first suggestion
\* is then the "No exact matches found" notice.
C14_SuggestionsIffRelaxedEvery ==
  SearchSucceeded =>
     LET data == reply.response.data
     IN  /\ (data.suggestions # <<>>) <=>
              /\ Filtering
              /\ data.total = 0
              /\ \E i \in 1..Len(reply.catalog.items) : RelaxedEvery(reply.catalog.items[i])
         /\ (data.suggestions # <<>>) =>
              data.suggestions[1] = "No exact matches found. Try broadening your search or check ingredient spelling."

\* C14: suggestions are produced iff strict filtering yields zero items and
\* the relaxed pass keeps a candidate, the relaxed pass keeping a candidate
\* when some include term (or none given) and no exclude term,
\* quote-stripped, is a substring of the candidate's search text; the first
\* suggestion is then the "No exact matches found" notice.
C14_SuggestionsIffRelaxedSome ==
  SearchSucceeded =>
     LET data == reply.response.data
     IN  /\ (data.suggestions # <<>>) <=>
              /\ Filtering
              /\ data.total = 0
              /\ \E i \in 1..Len(reply.catalog.items) : RelaxedSome(reply.catalog.items[i])
         /\ (data.suggestions # <<>>) =>
              data.suggestions[1] = "No exact matches found. Try broadening your search or check ingredient spelling."

\* C14 witness: quoted "chick" kept no candidate of a batch holding
\* "Chicken", and the result carries suggestions for the one candidate the
\* relaxed pass keeps.
C14_Witness ==
  /\ SearchSucceeded
  /\ reply.params.includeIngredients = Str_q_chick
  /\ reply.params.excludeIngredients = Str_rice
  /\ reply.catalog.items = <<ItemMeal, ItemChicken>>
  /\ reply.response.data.total = 0
  /\ Len(reply.response.data.suggestions) = 2
  /\ reply.response.data.suggestions[2] = 1

\* ---------------------------------------------------- claims on the sort
\* sortProducts was called, with this result.
Sorted == app.fn = "sortProducts" /\ app.result # <<>>

\* C15: after sorting by carbs_asc every candidate without a carbEstimated
\* stands after every candidate with a carbEstimated of at most 999.
C15_MissingCarbsLast ==
  (Sorted /\ app.args[2] = "carbs_asc") =>
     LET out == app.result[1]
     IN  \A i, j \in 1..Len(out) :
            (/\ out[i].carbEstimated = Missing
             /\ out[j].carbEstimated # Missing
             /\ out[j].carbEstimated <= 999) => j < i

\* The number a candidate is ranked by, smaller first: the negated value
\* (0 when missing) for the descending keys, carbEstimated (999 when
\* missing) for carbs_asc, the same for all under an unknown key.
Rank(item, sortBy) ==
  CASE sortBy = "protein_desc"  -> 0 - (IF item.protein = Missing THEN 0 ELSE item.protein)
    [] sortBy = "fat_desc"      -> 0 - (IF item.fat = Missing THEN 0 ELSE item.fat)
    [] sortBy = "moisture_desc" -> 0 - (IF item.moisture = Missing THEN 0 ELSE item.moisture)
    [] sortBy = "carbs_asc"     -> IF item.carbEstimated = Missing THEN 999 ELSE item.carbEstimated
    [] OTHER                    -> 0

\* The place of an item in a list without repetition.
PlaceIn(list, item) == CHOOSE k \in 1..Len(list) : list[k] = item

\* C16: sortProducts returns a permutation of its input ordered by the
\* chosen key, candidates with equal keys in their input order (so the
\* input order as a whole under an unknown key), and leaves the input list
\* as it was.
C16_StableSortedCopy ==
  Sorted =>
     LET in     == app.given
         out    == app.result[1]
         sortBy == app.args[2]
     IN  /\ Len(out) = Len(in)
         /\ {out[i] : i \in 1..Len(out)} = {in[i] : i \in 1..Len(in)}
         /\ \A i, j \in 1..Len(out) :
              i < j =>
                 \/ Rank(out[i], sortBy) < Rank(out[j], sortBy)
                 \/ /\ Rank(out[i], sortBy) = Rank(out[j], sortBy)
                    /\ PlaceIn(in, out[i]) < PlaceIn(in, out[j])
         /\ (sortBy = "name_asc") => out = in
         /\ app.args[1] = in

\* C16 witness: three candidates, two of equal protein given in the order
\* p4, p1 after p2, were sorted by protein_desc into p4, p1, p2.
C16_Witness ==
  /\ Sorted
  /\ app.args[2] = "protein_desc"
  /\ app.given = <<ItemChicken, ItemTagged, ItemMeal>>
  /\ app.result[1] = <<ItemTagged, ItemMeal, ItemChicken>>
  /\ app.args[1] = app.given

\* ------------------------------------- claims on invocations made together
\* The calls admitted at the instant of the latest consume() each found a
\* different token count.
DistinctCounts ==
  \A i, j \in 1..Len(conc.obs.observed) :
     i # j => conc.obs.observed[i] # conc.obs.observed[j]

\* The remaining values given to the calls admitted at that instant go
\* down by exactly 1 from one call to the next.
RemainingDecreases ==
  \A i \in 1..(Len(conc.obs.remaining) - 1) :
     conc.obs.remaining[i + 1] = conc.obs.remaining[i] - 1

\* The calls admitted at that instant are no more than the tokens the
\* bucket held at its first consume() of the instant.
AdmittedWithinTokens ==
  Len(conc.obs.observed) * WindowMs <= conc.obs.avail

\* C20: however the invocations of one identity interleave, consume() is
\* one atomic refill-and-decrement step: no two requests admitted at one
\* instant observe the same token count, the remaining values they receive
\* decrease by exactly 1, and the number admitted does not exceed the
\* tokens available.
C20_AtomicConsume ==
  /\ DistinctCounts
  /\ RemainingDecreases
  /\ AdmittedWithinTokens

\* ------------------------------------------- claims on the term lists
\* A search_products invocation with term lists ended with a response.
TermsEnded == reply.tool = "search_products" /\ reply.kind = "response"

\* The literal holds only letters, digits, spaces and - ' . ( )
ListedLiteral(lit) ==
  \A i \in 1..Len(lit) :
     lit[i] \in UpperCase \cup LowerCase \cup Digits \cup {" ", "-", "'", ".", "(", ")"}

\* The parameter is one quoted term whose literal has a character outside
\* letters, digits, spaces and - ' . ( )
UnlistedQuoted(param) == Quoted(Trim(param)) /\ ~ListedLiteral(Unquote(Trim(param)))

\* The parameter is one quoted term whose literal has a character outside
\* letters, digits, underscores, white space and - ' . ( )
UnsafeQuoted(param) == Quoted(Trim(param)) /\ ~SafeLiteral(Unquote(Trim(param)))

\* The ids of the batch items that hold (or do not hold) the parameter's
\* literal as a substring of a searched field.
IdsWithLiteral(param, wanted) ==
  LET Keep(item) == SubstringOfField(Unquote(Trim(param)), item) = wanted
  IN  Ids(SelectSeq(reply.catalog.items, Keep))

\* The response to the request ended, had its quoted terms of the kind
\* Kind been given without their quotes.
ResponseUnquoted(Kind(_)) ==
  LET inc == reply.params.includeIngredients
      exc == reply.params.excludeIngredients
  IN  SearchRespond(
        [reply.params EXCEPT
           !.includeIngredients = IF Kind(inc) THEN Unquote(Trim(inc)) ELSE inc,
           !.excludeIngredients = IF Kind(exc) THEN Unquote(Trim(exc)) ELSE exc],
        reply.catalog, reply.response.rateLimit)

\* The request ended as a quoted term of the kind Kind should: without an
\* internal error, with the response the unquoted term gives, and with the
\* items that hold the literal as a substring.
EndsAsPartial(Kind(_)) ==
  LET inc == reply.params.includeIngredients
      exc == reply.params.excludeIngredients
  IN  (TermsEnded /\ (Kind(inc) \/ Kind(exc))) =>
        /\ reply.response.type # "INTERNAL"
        /\ reply.response = ResponseUnquoted(Kind)
        /\ (reply.response.type = "OK" /\ Kind(inc) /\ exc = <<>>) =>
              Ids(reply.response.data.items) = IdsWithLiteral(inc, TRUE)
        /\ (reply.response.type = "OK" /\ Kind(exc) /\ inc = <<>>) =>
              Ids(reply.response.data.items) = IdsWithLiteral(exc, FALSE)

\* C22 as stated: a quoted term whose literal has a character outside
\* letters, digits, spaces and - ' . ( ) is matched as a plain substring of
\* each searched field and causes no error response: the request ends as
\* it does for the partial term.
C22_UnlistedQuotedAsPartial == EndsAsPartial(UnlistedQuoted)

\* C22: a quoted term whose literal has a character outside letters,
\* digits, underscores, white space and - ' . ( ) is matched as a plain
\* substring of each searched field and causes no error response: the
\* request ends as it does for the partial term.
C22_UnsafeQuotedAsPartial == EndsAsPartial(UnsafeQuoted)

\* C22 witness: the include term is quoted "k&p", the batch holds the
\* candidate with "chick&peas" and one without, and the first alone is
\* returned.
C22_Witness ==
  /\ TermsEnded
  /\ reply.params.includeIngredients = Str_q_amp
  /\ reply.params.excludeIngredients = <<>>
  /\ reply.catalog.items = <<ItemChicken, ItemAmp>>
  /\ reply.response.type = "OK"
  /\ Ids(reply.response.data.items) = <<"p5">>

\* ------------------------------------------------- claims on the paging
\* The ids of the filtered, sorted batch of the request paged through.
PagedIds == Ids(ProcessedItems(app.args[2], app.args[1]))

\* C27: paging through a client-processed request from cursor 0 with the
\* returned cursors gives the filtered, sorted batch items in order, each
\* once and none left out, and ends at a page with hasMore = false: every
\* page before the last brings `limit` new items.
C27_PagesCoverBatchOnce ==
  (app.fn = "pages" /\ app.state # "failed") =>
     /\ Len(app.got) <= Len(PagedIds)
     /\ app.got = SubSeq(PagedIds, 1, Len(app.got))
     /\ app.state = "done" => app.got = PagedIds
     /\ app.state = "paging" =>
          /\ Len(app.got) = app.requests * app.args[1].limit
          /\ app.cursor = Len(app.got)
          /\ app.requests > 0 => Len(app.got) < Len(PagedIds)

\* C27 witness: three sorted items were paged through in two pages of
\* two.
C27_Witness ==
  /\ app.fn = "pages"
  /\ app.state = "done"
  /\ app.args[1].limit = 2
  /\ app.args[1].sortBy = "protein_desc"
  /\ app.requests = 2
  /\ Len(app.got) = 3
  /\ app.got = PagedIds

\* The term list has an element that is empty once trimmed.
HasEmptyElement(param) ==
  /\ param # <<>>
  /\ \E i \in 1..Len(SplitComma(param)) : Trim(SplitComma(param)[i]) = <<>>

\* The ids of the batch items that have every element of the term list
\* that is not empty once trimmed.
IdsWithNonEmptyTerms(param) ==
  LET parts == SplitComma(param)
      Keep(item) == \A i \in 1..Len(parts) :
                       Trim(parts[i]) # <<>> => HasTerm(item, Trim(parts[i]))
  IN  Ids(SelectSeq(reply.catalog.items, Keep))

\* C29: an element of includeIngredients / excludeIngredients that is
\* empty once trimmed matches every candidate: among the include terms it
\* filters nothing out, among the exclude terms it removes every candidate
\* of the batch.
C29_EmptyElementMatchesAll ==
  (TermsEnded /\ reply.response.type = "OK") =>
     LET inc  == reply.params.includeIngredients
         exc  == reply.params.excludeIngredients
         data == reply.response.data
     IN  /\ HasEmptyElement(exc) => data.items = <<>> /\ data.total = 0
         /\ (HasEmptyElement(inc) /\ exc = <<>>) =>
               Ids(data.items) = IdsWithNonEmptyTerms(inc)

\* C29 witness: the exclude list is "rice," and the batch holds two
\* candidates without rice in a searched field: none is returned.
C29_Witness ==
  /\ TermsEnded
  /\ reply.response.type = "OK"
  /\ reply.params.includeIngredients = <<>>
  /\ reply.params.excludeIngredients = Str_rice_comma
  /\ reply.catalog.items = <<ItemChicken, ItemAmp>>
  /\ ~SubstringOfField(Str_rice, ItemChicken)
  /\ ~SubstringOfField(Str_rice, ItemAmp)
  /\ reply.response.data.total = 0

=============================================================================
